---- MODULE Spec2Model ----
(***************************************************************************)
(* Model of the background job lifecycle of claude-code-manager:           *)
(* JobStore (src/jobs/store.ts), JobManager (src/jobs/job-manager.ts) and  *)
(* the executors they drive.  Every `await` of the source is a yield       *)
(* point: an asynchronous flow is a process whose pc names the await it is *)
(* suspended at, and one action runs the code from one await to the next.  *)
(***************************************************************************)
EXTENDS Integers, Sequences, FiniteSets, TLC

(***************************************************************************)
(* Bounds of the model.                                                    *)
(***************************************************************************)
\* job ids a caller may supply (StartJobOptions.jobId) or randomUUID() may draw
MaxJobIds == 2
\* accepted start calls: each creates one job object and one background execution
MaxExecs == 2
\* the clock (Date.now()) runs from 0 to MaxTime
MaxTime == 1
\* how many true returns / cancellation events are counted per job
MaxCount == 2

\* JobManagerOptions.maxConcurrentJobs as configured
maxConcurrentJobs == 1

JobIds == 1..MaxJobIds
ExecIds == 1..MaxExecs
Times == 0..MaxTime

(***************************************************************************)
(* Values.  A field that is `undefined` in the source holds a sentinel of  *)
(* the field's own type.                                                   *)
(***************************************************************************)
Undefined == -1
NoError == "undefined"
NoTask == "undefined"
NoMessage == "undefined"

\* the literal ['completed', 'failed', 'cancelled'] of the source
TerminalStatuses == {"completed", "failed", "cancelled"}
JobStatus == {"pending", "running", "completed", "failed", "cancelled"}

\* job.result: ExecuteResult (success) or LoopResult (success, completed, finalState)
NoResult ==
  [defined |-> FALSE, success |-> FALSE, completed |-> FALSE,
   tasksCompleted |-> 0, tasksTotal |-> 0, error |-> "undefined"]

\* a failed ExecuteResult carries the Error object the executor caught
ExecuteResult(success) ==
  [defined |-> TRUE, success |-> success, completed |-> FALSE,
   tasksCompleted |-> 0, tasksTotal |-> 0,
   error |-> IF success THEN "undefined" ELSE "Error"]

\* job.progress (JobProgress); defined = FALSE is `progress: undefined`
NoProgress ==
  [defined |-> FALSE, currentIteration |-> 0, currentTaskId |-> NoTask,
   tasksCompleted |-> 0, tasksTotal |-> 0, lastUpdate |-> Undefined,
   message |-> NoMessage]

\* a Partial<JobProgress>: Undefined / NoTask / NoMessage mark an absent field
NoPartial ==
  [currentIteration |-> Undefined, currentTaskId |-> NoTask,
   tasksCompleted |-> Undefined, tasksTotal |-> Undefined, message |-> NoMessage]

\* a ?? b on numbers, and on strings
Coalesce(a, b) == IF a = Undefined THEN b ELSE a
CoalesceStr(a, b) == IF a = "undefined" THEN b ELSE a

\* JavaScript truthiness of a string or undefined
Truthy(s) == s \notin {"undefined", ""}

(***************************************************************************)
(* Job objects.                                                            *)
(***************************************************************************)
\* the job literal built by startSingleShot / startLoop
NewJob(id, type, tasksTotal, t) ==
  [id |-> id, type |-> type, status |-> "pending",
   createdAt |-> t, startedAt |-> Undefined, completedAt |-> Undefined,
   error |-> NoError, result |-> NoResult,
   progress |-> [defined |-> TRUE, currentIteration |-> 0, currentTaskId |-> NoTask,
                 tasksCompleted |-> 0, tasksTotal |-> tasksTotal,
                 lastUpdate |-> t, message |-> "Job created"],
   iterations |-> <<>>]

\* a heap slot no reference points to
NoObject == NewJob(0, "none", 0, 0)

(***************************************************************************)
(* JobStore: the effect of each update on the job object it finds.         *)
(***************************************************************************)
\* JobStore.updateStatus, from `job.status = status` to `job.error = error`
SetStatus(job, status, error, t) ==
  [job EXCEPT
     !.status = status,
     !.startedAt = IF status = "running" /\ @ = Undefined THEN t ELSE @,
     !.completedAt = IF status \in TerminalStatuses THEN t ELSE @,
     !.error = IF Truthy(error) THEN error ELSE @]

MergeProgressAdds(job, partial, t) ==
  [job EXCEPT !.progress =
     [defined |-> TRUE,
      currentIteration |-> Coalesce(partial.currentIteration, job.progress.currentIteration),
      currentTaskId |-> CoalesceStr(partial.currentTaskId, job.progress.currentTaskId),
      tasksCompleted |-> job.progress.tasksCompleted + Coalesce(partial.tasksCompleted, 0),
      tasksTotal |-> Coalesce(partial.tasksTotal, job.progress.tasksTotal),
      lastUpdate |-> t,
      message |-> CoalesceStr(partial.message, job.progress.message)]]

\* JobStore.updateProgress: the field-wise merge
MergeProgress(job, partial, t) ==
  [job EXCEPT !.progress =
     [defined |-> TRUE,
      currentIteration |-> Coalesce(partial.currentIteration, job.progress.currentIteration),
      currentTaskId |-> CoalesceStr(partial.currentTaskId, job.progress.currentTaskId),
      tasksCompleted |-> Coalesce(partial.tasksCompleted, job.progress.tasksCompleted),
      tasksTotal |-> Coalesce(partial.tasksTotal, job.progress.tasksTotal),
      lastUpdate |-> t,
      message |-> CoalesceStr(partial.message, job.progress.message)]]

\* JobStore.updateResult
SetResult(job, result) == [job EXCEPT !.result = result]

(***************************************************************************)
(* JobStore persistence: <id>.json holds JSON.stringify(serializeJob(job)). *)
(***************************************************************************)
\* Date.toISOString and new Date(text): the text of an instant
toISOString(t) == [iso |-> t]
ParseDate(text) == text.iso
\* a field JSON.stringify leaves out
NoText == [iso |-> Undefined]

\* JSON.stringify of job.progress: lastUpdate becomes its ISO text
ProgressToJSON(progress) ==
  [progress EXCEPT !.lastUpdate = IF progress.defined THEN toISOString(@) ELSE NoText]

\* JSON.stringify of job.result: an Error object has no enumerable field
ResultToJSON(result) ==
  [result EXCEPT !.error = IF @ = "Error" THEN "{}" ELSE @]

\* JobStore.serializeJob followed by JSON.stringify; present: the file exists;
\* content: what kind of text the file holds ("job": the JSON text of a job)
serializeJob(job) ==
  [present |-> TRUE,
   content |-> "job",
   id |-> job.id,
   type |-> job.type,
   status |-> job.status,
   createdAt |-> toISOString(job.createdAt),
   startedAt |-> IF job.startedAt = Undefined THEN NoText ELSE toISOString(job.startedAt),
   completedAt |-> IF job.completedAt = Undefined THEN NoText
                   ELSE toISOString(job.completedAt),
   error |-> job.error,
   progress |-> ProgressToJSON(job.progress),
   result |-> ResultToJSON(job.result),
   iterations |-> IF job.type = "loop" THEN job.iterations ELSE << >>]

\* no file of that name in the directory
NoFile == [serializeJob(NoObject) EXCEPT !.present = FALSE]

\* files that hold no job: a text that is not JSON (a torn write), the JSON text
\* null, and the JSON text {} (an object with none of the fields of a job)
NotJSON == [NoFile EXCEPT !.present = TRUE, !.content = "text"]
NullJSON == [NoFile EXCEPT !.present = TRUE, !.content = "null"]
EmptyObject ==
  [NoFile EXCEPT !.present = TRUE, !.content = "object", !.id = Undefined,
                 !.type = "undefined", !.status = "undefined", !.createdAt = NoText,
                 !.progress = ProgressToJSON(NoProgress)]

\* loadPersistedJobs, the try block of one file: fs.readFile throws for a file
\* that is gone, JSON.parse for a text that is not JSON, deserializeJob for null
\* (serialized.id of null); nothing in it tests the fields of a parsed object
ReadThrows(file) == ~file.present \/ file.content \in {"text", "null"}

\* JSON.parse followed by JobStore.deserializeJob
deserializeJob(serialized) ==
  [id |-> serialized.id,
   type |-> IF serialized.type = "loop" THEN "loop" ELSE "single-shot",
   status |-> serialized.status,
   createdAt |-> ParseDate(serialized.createdAt),
   startedAt |-> IF serialized.startedAt # NoText
                 THEN ParseDate(serialized.startedAt) ELSE Undefined,
   completedAt |-> IF serialized.completedAt # NoText
                   THEN ParseDate(serialized.completedAt) ELSE Undefined,
   error |-> serialized.error,
   result |-> serialized.result,
   progress |-> IF serialized.progress.defined
                THEN [serialized.progress EXCEPT !.lastUpdate = ParseDate(@)]
                ELSE NoProgress,
   iterations |-> IF serialized.type = "loop" THEN serialized.iterations ELSE << >>]

\* JobStoreOptions.maxJobAge as configured
maxJobAge == 1

InterruptedError == "Job was interrupted by process restart"

\* loadPersistedJobs without the branch for running jobs
RecoverJobKeepsRunning(job, t) == job

\* loadPersistedJobs: the job a file of a job that is not terminal is loaded as
RecoverJob(job, t) ==
  IF job.status = "running"
    THEN [job EXCEPT !.status = "failed", !.error = InterruptedError, !.completedAt = t]
    ELSE job

\* job.completedAt?.getTime() ?? job.createdAt.getTime()
CompletedOrCreated(job) ==
  IF job.completedAt # Undefined THEN job.completedAt ELSE job.createdAt

\* loadPersistedJobs: a terminal job is kept when it is younger than maxJobAge
WithinMaxAge(job, t) == t - CompletedOrCreated(job) < maxJobAge

(***************************************************************************)
(* JobManager.poll: the snapshot computed from the job object.             *)
(***************************************************************************)
\* JobPollResult.duration: absent, or a number of milliseconds
NoDuration == [defined |-> FALSE, ms |-> 0]

\* poll with `finished` computed from ['completed', 'failed'] only
pollCancelledUnfinished(job) ==
  LET finished == job.status \in {"completed", "failed"}
  IN [id |-> job.id, status |-> job.status, progress |-> job.progress,
      finished |-> finished,
      result |-> IF finished THEN job.result ELSE NoResult,
      error |-> job.error,
      duration |-> IF finished /\ job.completedAt # Undefined /\ job.startedAt # Undefined
                   THEN [defined |-> TRUE, ms |-> job.completedAt - job.startedAt]
                   ELSE NoDuration]

\* poll with `result: job.result`
pollExposesResult(job) ==
  LET finished == job.status \in {"completed", "failed", "cancelled"}
  IN [id |-> job.id, status |-> job.status, progress |-> job.progress,
      finished |-> finished,
      result |-> job.result,
      error |-> job.error,
      duration |-> IF finished /\ job.completedAt # Undefined /\ job.startedAt # Undefined
                   THEN [defined |-> TRUE, ms |-> job.completedAt - job.startedAt]
                   ELSE NoDuration]

poll(job) ==
  LET finished == job.status \in {"completed", "failed", "cancelled"}
  IN [id |-> job.id,
      status |-> job.status,
      progress |-> job.progress,
      finished |-> finished,
      result |-> IF finished THEN job.result ELSE NoResult,
      error |-> job.error,
      duration |-> IF finished /\ job.completedAt # Undefined /\ job.startedAt # Undefined
                   THEN [defined |-> TRUE, ms |-> job.completedAt - job.startedAt]
                   ELSE NoDuration]

(***************************************************************************)
(* State.                                                                  *)
(***************************************************************************)
VARIABLES
  now,                 \* Date.now()
  jobs,                \* JobStore.jobs: job id -> reference to a job object
  heap,                \* the job objects, one per accepted start call
  runningJobs,         \* keys of JobManager.runningJobs
  cancellationTokens,  \* JobManager.cancellationTokens: job id -> token
  tokenCancelled,      \* CancellationToken.cancelled of the token made by start call e
  execs,               \* the background executions (executeSingleShot / executeLoop)
  cancels,             \* cancel() calls suspended at an await
  cancelTrue,          \* history: how often cancel() returned true for a job object
  files,               \* the store directory: job id -> content of <id>.json
  persisted,           \* history: the job each file was written from
  phase,               \* "up": the process runs; "loading" / "ready": its successor
  toLoad,              \* loadPersistedJobs: the files of readdir still to be read
  keyOrder,            \* JobStore.jobs: its keys in insertion order (Map iteration order)
  sweep,               \* JobStore.cleanup suspended at an await: toDelete and the rest of it
  lastCall,            \* history: the last API call that returned or raised
  waiter,              \* the waitForCompletion call in flight: its position and poll result
  loaders,             \* the JobStore.initialize() calls of a manager that is not yet initialized
  token                \* a CancellationToken a caller holds, and its listeners

\* the store directory and the restart of the process; the caller's token
diskVars == <<files, persisted, phase, toLoad, loaders, token>>

\* cleanup in flight, the outcome of API calls, the waitForCompletion call in flight
callVars == <<sweep, lastCall, waiter>>

vars ==
  <<now, jobs, keyOrder, heap, runningJobs, cancellationTokens, tokenCancelled, execs,
    cancels, cancelTrue, diskVars, callVars>>

\* no cleanup is in flight
NoSweep == [active |-> FALSE, rest |-> << >>, count |-> 0]

\* API calls that can arrive before the manager is initialized
MaxLoaders == 2
Loaders == 1..MaxLoaders

\* no initialize() call was made
\* `replaced`: the call has replaced a record that was in the store
NoLoaders == [l \in Loaders |-> [pc |-> "idle", list |-> {}, replaced |-> FALSE]]

\* no waitForCompletion call is in flight
IdleWaiter == [pc |-> "idle", id |-> 0, result |-> << >>]

\* no API call has returned yet
NoCall == [op |-> "none", id |-> 0, threw |-> "none", value |-> 0]

NoException == "none"

\* the callbacks a caller passes to onCancel, and the cancel() calls it makes
MaxListeners == 3
MaxCancelCalls == 2
Listeners == 1..MaxListeners

\* new CancellationToken(): cancelled = false, callbacks = []; history: which
\* listeners were passed to onCancel, how often each was invoked, how often
\* cancel() was called
NewCancellationToken ==
  [cancelled |-> FALSE, callbacks |-> << >>, registered |-> {},
   invoked |-> [l \in Listeners |-> 0], cancelCalls |-> 0]

\* a background execution that no start call has created yet
IdleExec ==
  [pc |-> "idle", jobId |-> 0, type |-> "none", exc |-> NoException,
   result |-> NoResult, invoked |-> FALSE, hookThrew |-> FALSE,
   \* LoopExecutor.execute: options and locals
   maxIterations |-> 0, failFast |-> FALSE, prd |-> << >>, iteration |-> 0, story |-> 0,
   iterations |-> << >>,
   \* the local result: what the last worker call returned ("pass" is success with
   \* data.passes, "nopass" success without it, "fail" no success)
   worker |-> "none",
   \* options.taskFile on disk, as this run loaded it and as its saves leave it
   taskFile |-> << >>,
   \* the earlier run whose taskFile this run was started on (0: none)
   earlier |-> 0,
   \* options.progressFile is given; the entries appended to that file
   progressFile |-> FALSE, log |-> << >>,
   \* where the execution stood when cancel() called its token's cancel()
   cancelPc |-> "none",
   \* the onIteration calls of executeLoop that have not finished (nothing awaits them)
   cbs |-> << >>]

\* a background execution whose promise has settled
DoneExec == [IdleExec EXCEPT !.pc = "done"]

IdleCancel == [pc |-> "idle", job |-> 0]

Init ==
  /\ now = 0
  /\ jobs = << >>
  /\ heap = [e \in ExecIds |-> NoObject]
  /\ runningJobs = {}
  /\ cancellationTokens = << >>
  /\ tokenCancelled = [e \in ExecIds |-> FALSE]
  /\ execs = [e \in ExecIds |-> IdleExec]
  /\ cancels = [id \in JobIds |-> IdleCancel]
  /\ cancelTrue = [e \in ExecIds |-> 0]
  /\ files = [id \in JobIds |-> NoFile]
  /\ persisted = [id \in JobIds |-> NoObject]
  /\ phase = "up"
  /\ toLoad = {}
  /\ keyOrder = << >>
  /\ sweep = NoSweep
  /\ lastCall = NoCall
  /\ waiter = IdleWaiter
  /\ loaders = NoLoaders
  /\ token = NewCancellationToken

\* time passes
Tick ==
  /\ now < MaxTime
  /\ now' = now + 1
  /\ UNCHANGED <<callVars, diskVars, jobs, keyOrder, heap, runningJobs, cancellationTokens,
                 tokenCancelled, execs, cancels, cancelTrue>>

(***************************************************************************)
(* JobStore as the JobManager calls it.                                    *)
(***************************************************************************)
\* JobStore.has
Has(id) == id \in DOMAIN jobs

\* JobStore.get, for an id that is present
Job(id) == heap[jobs[id]]

\* job objects still referenced: by the store's map or by a suspended flow
Referenced(map, cs, xs) ==
  {map[id] : id \in DOMAIN map} \cup {cs[id].job : id \in JobIds}
    \cup UNION {{xs[e].cbs[k].job : k \in DOMAIN xs[e].cbs} : e \in ExecIds}

\* objects nothing refers to are dropped (garbage collection)
Collect(h, map, cs, xs) ==
  [o \in ExecIds |-> IF o \in Referenced(map, cs, xs) THEN h[o] ELSE NoObject]

\* history is kept for the job objects that are still referenced
CollectCounts(c, map, cs, xs) ==
  [o \in ExecIds |-> IF o \in Referenced(map, cs, xs) THEN c[o] ELSE 0]

Bump(n) == IF n < MaxCount THEN n + 1 ELSE n

\* the store's map with id bound to object o (Map.set) / with id removed (Map.delete)
MapSet(map, id, o) == (id :> o) @@ map
MapDelete(map, id) == [k \in (DOMAIN map) \ {id} |-> map[k]]

\* the keys of the map in iteration order: set appends a new key and leaves an
\* old one in place, delete takes the key out
KeySet(order, id) ==
  IF \E i \in DOMAIN order : order[i] = id THEN order ELSE Append(order, id)
KeyDelete(order, id) == SelectSeq(order, LAMBDA k : k # id)

\* the heap after updateStatus / updateProgress / updateResult on id; each throws
\* 'Job not found' and changes nothing when the id is absent
StoreUpdateStatus(id, status, error) ==
  IF Has(id) THEN [heap EXCEPT ![jobs[id]] = SetStatus(@, status, error, now)] ELSE heap

StoreUpdateProgress(id, partial) ==
  IF Has(id) THEN [heap EXCEPT ![jobs[id]] = MergeProgress(@, partial, now)] ELSE heap

StoreUpdateResult(id, result) ==
  IF Has(id) THEN [heap EXCEPT ![jobs[id]] = SetResult(@, result)] ELSE heap

StoreThrowsNothing(id) == NoException

\* the exception a store update on id raises
StoreThrows(id) == IF Has(id) THEN NoException ELSE "Job not found"

\* JobManager.checkConcurrencyLimit: TRUE when it throws
checkConcurrencyLimit == Cardinality(runningJobs) >= maxConcurrentJobs

\* the execution slot the next accepted start call takes
FreeExecs == {e \in ExecIds : execs[e].pc = "idle"}
NextExec == CHOOSE e \in FreeExecs : \A f \in FreeExecs : e <= f


(***************************************************************************)
(* JobManager.startSingleShot and executeSingleShot.                       *)
(***************************************************************************)
\* the message of the Error an event hook throws
HookError == "hook error"

\* the catch block of executeSingleShot up to its first await:
\* updateStatus(job.id, 'failed', errorMessage)
SSCatchHeap(x, msg) == StoreUpdateStatus(x.jobId, "failed", msg)
SSCatchExec(x) == [x EXCEPT !.pc = "err_status", !.exc = StoreThrows(x.jobId)]

\* a step inside the try block: the flow resumes at pcFrom; a rejected await
\* enters the catch block, otherwise the step's own effect takes place
SSTry(e, pcFrom, normalHeap, normalExec) ==
  /\ execs[e].type = "single-shot"
  /\ execs[e].pc = pcFrom
  /\ IF execs[e].exc # NoException
       THEN /\ heap' = SSCatchHeap(execs[e], execs[e].exc)
            /\ execs' = [execs EXCEPT ![e] = SSCatchExec(@)]
       ELSE /\ heap' = normalHeap
            /\ execs' = [execs EXCEPT ![e] = normalExec]
  /\ UNCHANGED <<callVars, diskVars, now, jobs, keyOrder, runningJobs, cancellationTokens, tokenCancelled,
                 cancels, cancelTrue>>

\* startSingleShot, from checkConcurrencyLimit() to the await of store.save(job)
StartSingleShot(id) ==
  /\ ~checkConcurrencyLimit
  /\ FreeExecs # {}
  /\ LET e == NextExec IN
       /\ jobs' = MapSet(jobs, id, e)
       /\ keyOrder' = KeySet(keyOrder, id)
       /\ execs' = [execs EXCEPT ![e] =
                      [IdleExec EXCEPT !.pc = "start_save", !.jobId = id,
                                       !.type = "single-shot"]]
       /\ heap' = Collect([heap EXCEPT ![e] = NewJob(id, "single-shot", 1, now)],
                          jobs', cancels, execs')
       /\ cancelTrue' = CollectCounts(cancelTrue, jobs', cancels, execs')
  /\ UNCHANGED <<callVars, diskVars, now, runningJobs, cancellationTokens, tokenCancelled, cancels>>

\* startSingleShot / startLoop when checkConcurrencyLimit() throws
StartRejected ==
  /\ checkConcurrencyLimit
  /\ UNCHANGED vars

\* startSingleShot after store.save(job): executeSingleShot(job) runs to its first
\* await (updateStatus(job.id, 'running')), then runningJobs.set(jobId, ...)
SSLaunch(e) ==
  /\ execs[e].type = "single-shot"
  /\ execs[e].pc = "start_save"
  /\ heap' = StoreUpdateStatus(execs[e].jobId, "running", NoError)
  /\ execs' = [execs EXCEPT ![e].pc = "run_status", ![e].exc = StoreThrows(execs[e].jobId)]
  /\ runningJobs' = runningJobs \cup {execs[e].jobId}
  /\ UNCHANGED <<callVars, diskVars, now, jobs, keyOrder, cancellationTokens, tokenCancelled,
                 cancels, cancelTrue>>

\* updateProgress(job.id, {message: 'Executing task...'})
SSRunProgress(e) ==
  SSTry(e, "run_status",
        StoreUpdateProgress(execs[e].jobId, [NoPartial EXCEPT !.message = "Executing task..."]),
        [execs[e] EXCEPT !.pc = "run_progress", !.exc = StoreThrows(execs[e].jobId)])

\* events.onJobStarted?.(job) is called
SSCallStarted(e) ==
  SSTry(e, "run_progress", heap, [execs[e] EXCEPT !.pc = "hook_started"])

\* onJobStarted resolved: singleShotExecutor.execute(job.options) is called
SSExecute(e) ==
  SSTry(e, "hook_started", heap, [execs[e] EXCEPT !.pc = "worker", !.invoked = TRUE])

\* onJobStarted threw
SSStartedThrows(e) ==
  /\ execs[e].exc = NoException
  /\ SSTry(e, "hook_started", SSCatchHeap(execs[e], HookError),
           [SSCatchExec(execs[e]) EXCEPT !.hookThrew = TRUE])

\* SingleShotExecutor.execute returns (it catches every error of the worker and
\* reports it as success = false); updateResult(job.id, result)
SSWorkerReturns(e, success) ==
  SSTry(e, "worker",
        StoreUpdateResult(execs[e].jobId, ExecuteResult(success)),
        [execs[e] EXCEPT !.pc = "res_result", !.result = ExecuteResult(success),
                         !.exc = StoreThrows(execs[e].jobId)])

\* updateProgress(job.id, {tasksCompleted: 1, message: ...})
SSResProgress(e) ==
  SSTry(e, "res_result",
        StoreUpdateProgress(execs[e].jobId,
          [NoPartial EXCEPT !.tasksCompleted = 1,
                            !.message = IF execs[e].result.success
                                        THEN "Task completed" ELSE "Task failed"]),
        [execs[e] EXCEPT !.pc = "res_progress", !.exc = StoreThrows(execs[e].jobId)])

\* updateStatus(job.id, result.success ? 'completed' : 'failed')
SSResStatus(e) ==
  SSTry(e, "res_progress",
        StoreUpdateStatus(execs[e].jobId,
          IF execs[e].result.success THEN "completed" ELSE "failed", NoError),
        [execs[e] EXCEPT !.pc = "res_status", !.exc = StoreThrows(execs[e].jobId)])

\* events.onJobCompleted?.(updatedJob) is called
SSCallCompleted(e) ==
  SSTry(e, "res_status", heap, [execs[e] EXCEPT !.pc = "hook_completed"])

\* the execution promise settles: .finally(() => runningJobs.delete(jobId))
SSSettled(e) ==
  /\ execs' = [execs EXCEPT ![e] = [DoneExec EXCEPT !.cbs = execs[e].cbs]]
  /\ runningJobs' = runningJobs \ {execs[e].jobId}
  /\ UNCHANGED <<callVars, diskVars, now, jobs, keyOrder, heap, cancellationTokens, tokenCancelled,
                 cancels, cancelTrue>>

\* onJobCompleted resolved: executeSingleShot returns
SSReturn(e) ==
  /\ execs[e].type = "single-shot"
  /\ execs[e].pc = "hook_completed"
  /\ SSSettled(e)

\* onJobCompleted threw
SSCompletedThrows(e) ==
  /\ execs[e].exc = NoException
  /\ SSTry(e, "hook_completed", SSCatchHeap(execs[e], HookError),
           [SSCatchExec(execs[e]) EXCEPT !.hookThrew = TRUE])

\* catch block: updateProgress(job.id, {message: `Error: ...`}); an exception of
\* the catch block itself rejects the execution promise
SSErrProgress(e) ==
  /\ execs[e].type = "single-shot"
  /\ execs[e].pc = "err_status"
  /\ IF execs[e].exc # NoException
       THEN SSSettled(e)
       ELSE /\ heap' = StoreUpdateProgress(execs[e].jobId,
                         [NoPartial EXCEPT !.message = "Error"])
            /\ execs' = [execs EXCEPT ![e].pc = "err_progress",
                                      ![e].exc = StoreThrows(execs[e].jobId)]
            /\ UNCHANGED <<callVars, diskVars, now, jobs, keyOrder, runningJobs, cancellationTokens, tokenCancelled,
                           cancels, cancelTrue>>

\* catch block: events.onJobFailed?.(updatedJob, error) is called
SSCallFailed(e) ==
  /\ execs[e].type = "single-shot"
  /\ execs[e].pc = "err_progress"
  /\ IF execs[e].exc # NoException
       THEN SSSettled(e)
       ELSE /\ execs' = [execs EXCEPT ![e].pc = "hook_failed"]
            /\ UNCHANGED <<callVars, diskVars, now, jobs, keyOrder, heap, runningJobs, cancellationTokens,
                           tokenCancelled, cancels, cancelTrue>>

\* onJobFailed resolved or threw: the execution promise settles either way
SSFailedReturns(e) ==
  /\ execs[e].type = "single-shot"
  /\ execs[e].pc = "hook_failed"
  /\ SSSettled(e)

\* the positions of executeSingleShot right after a store update
AfterStoreUpdate ==
  {"run_status", "run_progress", "res_result", "res_progress", "res_status",
   "err_status", "err_progress"}

(***************************************************************************)
(* The backlog (PRD) and the result of a LoopExecutor run.                 *)
(***************************************************************************)
\* options.maxIterations || 100
DefaultMaxIterations == 100
MaxIterationsOf(option) == IF option = 0 THEN DefaultMaxIterations ELSE option

\* the maxIterations a caller passes
LoopMaxIterations == 2

StoryA == [id |-> "A", priority |-> 2, passes |-> FALSE]
StoryB == [id |-> "B", priority |-> 1, passes |-> FALSE]

\* the backlog files a loop job is started on
TaskFiles == {<<StoryA, StoryB>>, <<[StoryB EXCEPT !.passes = TRUE]>>}

\* userStories.filter(s => !s.passes): the indices of the incomplete stories, in
\* the order of the backlog (filter builds a new array)
Incomplete(stories) ==
  SelectSeq([i \in 1..Len(stories) |-> i], LAMBDA i : ~stories[i].passes)

\* Array.prototype.sort with (a, b) => a.priority - b.priority: a stable sort, so
\* an element goes behind those it does not precede
RECURSIVE InsertByPriority(_, _, _)
InsertByPriority(sorted, i, stories) ==
  IF sorted = << >> THEN <<i>>
  ELSE IF stories[i].priority - stories[Head(sorted)].priority < 0
         THEN <<i>> \o sorted
         ELSE <<Head(sorted)>> \o InsertByPriority(Tail(sorted), i, stories)

RECURSIVE SortByPriority(_, _)
SortByPriority(indices, stories) ==
  IF indices = << >> THEN << >>
  ELSE InsertByPriority(SortByPriority(SubSeq(indices, 1, Len(indices) - 1), stories),
                        indices[Len(indices)], stories)

getNextStoryLastOfTies(stories) ==
  LET sorted == SortByPriority(Incomplete(stories), stories)
      ties == {k \in DOMAIN sorted : stories[sorted[k]].priority = stories[sorted[1]].priority}
  IN IF sorted = << >> THEN 0 ELSE sorted[Cardinality(ties)]

getNextStoryUnsorted(stories) ==
  IF Incomplete(stories) = << >> THEN 0 ELSE Incomplete(stories)[1]

\* PRD.getNextStory: the index of the story it returns, 0 for null
getNextStory(stories) ==
  LET incomplete == Incomplete(stories)
  IN IF Len(incomplete) = 0 THEN 0
     ELSE SortByPriority(incomplete, stories)[1]

\* PRD.markStoryComplete(id): the first story with that id passes
markStoryComplete(stories, id) ==
  LET hits == {i \in DOMAIN stories : stories[i].id = id}
  IN IF hits = {} THEN stories
     ELSE LET first == CHOOSE i \in hits : \A j \in hits : i <= j
          IN [stories EXCEPT ![first].passes = TRUE]

\* prd.getUserStories().filter(s => s.passes).length
PassCount(stories) == Cardinality({i \in DOMAIN stories : stories[i].passes})

\* the three results LoopExecutor.execute returns
LoopSuccess(stories) ==
  [defined |-> TRUE, success |-> TRUE, completed |-> TRUE,
   tasksCompleted |-> PassCount(stories), tasksTotal |-> Len(stories),
   error |-> "undefined"]

LoopUnfinished(stories) ==
  [defined |-> TRUE, success |-> FALSE, completed |-> FALSE,
   tasksCompleted |-> PassCount(stories), tasksTotal |-> Len(stories),
   error |-> "undefined"]

LoopError ==
  [defined |-> TRUE, success |-> FALSE, completed |-> FALSE,
   tasksCompleted |-> 0, tasksTotal |-> 0, error |-> "undefined"]

\* LoopExecutor.execute, the head of the while loop: the test, iteration++,
\* getNextStory, and either the return of success or the dispatch to the worker
EngLoopTopInclusive(x) ==
  IF x.iteration <= x.maxIterations
    THEN IF getNextStory(x.prd) = 0
           THEN [x EXCEPT !.iteration = @ + 1, !.pc = "returned",
                          !.result = LoopSuccess(x.prd)]
           ELSE [x EXCEPT !.iteration = @ + 1, !.pc = "worker",
                          !.story = getNextStory(x.prd)]
    ELSE [x EXCEPT !.pc = "returned", !.result = LoopUnfinished(x.prd)]

EngLoopTop(x) ==
  IF x.iteration < x.maxIterations
    THEN IF getNextStory(x.prd) = 0
           THEN [x EXCEPT !.iteration = @ + 1, !.pc = "returned",
                          !.result = LoopSuccess(x.prd)]
           ELSE [x EXCEPT !.iteration = @ + 1, !.pc = "worker",
                          !.story = getNextStory(x.prd)]
    ELSE [x EXCEPT !.pc = "returned", !.result = LoopUnfinished(x.prd)]

\* the end of an iteration: the cancellation check, then the head of the loop
EngIterationEnd(x, cancelled) ==
  IF cancelled
    THEN [x EXCEPT !.pc = "returned", !.result = LoopUnfinished(x.prd)]
    ELSE EngLoopTop(x)

(***************************************************************************)
(* JobManager.startLoop and executeLoop.                                   *)
(***************************************************************************)
\* the execution promise settles: runningJobs.delete, cancellationTokens.delete
LSettled(e) ==
  /\ execs' = [execs EXCEPT ![e] = [DoneExec EXCEPT !.cbs = execs[e].cbs]]
  /\ runningJobs' = runningJobs \ {execs[e].jobId}
  /\ cancellationTokens' = MapDelete(cancellationTokens, execs[e].jobId)
  /\ UNCHANGED <<callVars, diskVars, now, jobs, keyOrder, heap, tokenCancelled, cancels, cancelTrue>>

\* the catch block of executeLoop up to its first await: return when the job is
\* cancelled, else updateStatus(job.id, 'failed', errorMessage)
LCatch(e, msg, byHook) ==
  IF Has(execs[e].jobId) /\ Job(execs[e].jobId).status = "cancelled"
    THEN LSettled(e)
    ELSE /\ heap' = StoreUpdateStatus(execs[e].jobId, "failed", msg)
         /\ execs' = [execs EXCEPT ![e].pc = "err_status",
                                   ![e].exc = StoreThrows(execs[e].jobId),
                                   ![e].hookThrew = @ \/ byHook]
         /\ UNCHANGED <<callVars, diskVars, now, jobs, keyOrder, runningJobs, cancellationTokens, tokenCancelled,
                        cancels, cancelTrue>>

\* a step inside the try block of executeLoop
LTry(e, pcFrom, normalHeap, normalExec) ==
  /\ execs[e].type = "loop"
  /\ execs[e].pc = pcFrom
  /\ IF execs[e].exc # NoException
       THEN LCatch(e, execs[e].exc, FALSE)
       ELSE /\ heap' = normalHeap
            /\ execs' = [execs EXCEPT ![e] = normalExec]
            /\ UNCHANGED <<callVars, diskVars, now, jobs, keyOrder, runningJobs, cancellationTokens, tokenCancelled,
                           cancels, cancelTrue>>

\* startLoop, from checkConcurrencyLimit() to the await of store.save(job)
StartLoop(id, file, failFast) ==
  /\ ~checkConcurrencyLimit
  /\ FreeExecs # {}
  /\ LET e == NextExec IN
       /\ jobs' = MapSet(jobs, id, e)
       /\ keyOrder' = KeySet(keyOrder, id)
       /\ cancellationTokens' = MapSet(cancellationTokens, id, e)
       /\ tokenCancelled' = [tokenCancelled EXCEPT ![e] = FALSE]
       /\ execs' = [execs EXCEPT ![e] =
                      [IdleExec EXCEPT !.pc = "start_save", !.jobId = id, !.type = "loop",
                                       !.maxIterations = MaxIterationsOf(LoopMaxIterations),
                                       !.failFast = failFast, !.prd = file,
                                       !.taskFile = file]]
       /\ heap' = Collect([heap EXCEPT ![e] = NewJob(id, "loop", 0, now)],
                          jobs', cancels, execs')
       /\ cancelTrue' = CollectCounts(cancelTrue, jobs', cancels, execs')
  /\ UNCHANGED <<callVars, diskVars, now, runningJobs, cancels>>

\* startLoop after store.save(job): executeLoop(job) runs to its first await
\* (updateStatus(job.id, 'running')), then runningJobs.set(jobId, ...)
LLaunch(e) ==
  /\ execs[e].type = "loop"
  /\ execs[e].pc = "start_save"
  /\ heap' = StoreUpdateStatus(execs[e].jobId, "running", NoError)
  /\ execs' = [execs EXCEPT ![e].pc = "run_status", ![e].exc = StoreThrows(execs[e].jobId)]
  /\ runningJobs' = runningJobs \cup {execs[e].jobId}
  /\ UNCHANGED <<callVars, diskVars, now, jobs, keyOrder, cancellationTokens, tokenCancelled, cancels, cancelTrue>>

\* updateProgress(job.id, {message: 'Starting loop execution...'})
LRunProgress(e) ==
  LTry(e, "run_status",
       StoreUpdateProgress(execs[e].jobId,
         [NoPartial EXCEPT !.message = "Starting loop execution..."]),
       [execs[e] EXCEPT !.pc = "run_progress", !.exc = StoreThrows(execs[e].jobId)])

\* events.onJobStarted?.(job) is called
LCallStarted(e) ==
  LTry(e, "run_progress", heap, [execs[e] EXCEPT !.pc = "hook_started"])

\* onJobStarted resolved: loopExecutor.execute(wrappedOptions) is called and
\* awaits PRD.load(options.taskFile)
LExecute(e) ==
  LTry(e, "hook_started", heap, [execs[e] EXCEPT !.pc = "load", !.invoked = TRUE])

\* onJobStarted threw
LStartedThrows(e) ==
  /\ execs[e].type = "loop"
  /\ execs[e].pc = "hook_started"
  /\ execs[e].exc = NoException
  /\ LCatch(e, HookError, TRUE)

\* LoopExecutor.execute: the backlog is loaded and the loop is entered
EngLoaded(e) ==
  /\ execs[e].type = "loop"
  /\ execs[e].pc = "load"
  /\ execs' = [execs EXCEPT ![e] =
                 IF @.progressFile THEN [@ EXCEPT !.pc = "log_init"] ELSE EngLoopTop(@)]
  /\ UNCHANGED <<callVars, diskVars, now, jobs, keyOrder, heap, runningJobs, cancellationTokens, tokenCancelled,
                 cancels, cancelTrue>>

\* LoopExecutor.execute: PRD.load throws; the catch block returns the error result
EngLoadFails(e) ==
  /\ execs[e].type = "loop"
  /\ execs[e].pc = "load"
  /\ execs' = [execs EXCEPT ![e].pc = "returned", ![e].result = LoopError]
  /\ UNCHANGED <<callVars, diskVars, now, jobs, keyOrder, heap, runningJobs, cancellationTokens, tokenCancelled,
                 cancels, cancelTrue>>

\* the wrapper of onIteration in executeLoop, to its first await: the iteration
\* is pushed onto the stored job's iterations; a job that is absent, or that has no
\* iterations array, makes the wrapper reject
IterationResult(x, success) ==
  [iteration |-> x.iteration, taskId |-> x.prd[x.story].id, success |-> success]

WrapperRuns(x) == Has(x.jobId) /\ Job(x.jobId).type = "loop"

WrapperHeap(x, success) ==
  IF WrapperRuns(x)
    THEN [heap EXCEPT ![jobs[x.jobId]].iterations = Append(@, IterationResult(x, success))]
    ELSE heap

WrapperCbs(x, success) ==
  IF WrapperRuns(x)
    THEN Append(x.cbs, [pc |-> "save", jobId |-> x.jobId, job |-> jobs[x.jobId],
                        iteration |-> x.iteration, taskId |-> x.prd[x.story].id,
                        success |-> success])
    ELSE x.cbs

IsFailFastNever(x) == FALSE

\* options.errorStrategy?.mode === 'fail-fast'
IsFailFast(x) == x.failFast

\* LoopExecutor.execute: the worker returns for the dispatched story.
\* outcome: "fail" (success = false), "nopass" / "pass" (success with data.passes)
PassesOnSuccess(outcome) == outcome # "fail"

\* LoopExecutor.execute: result.success && result.data, then result.data.passes
Passes(outcome) == outcome = "pass"

EngWorkerReturns(e, outcome) ==
  /\ execs[e].type = "loop"
  /\ execs[e].pc = "worker"
  /\ LET x == execs[e]
         success == outcome # "fail"
         spawned == [x EXCEPT !.cbs = WrapperCbs(x, success),
                              !.worker = outcome,
                              !.iterations = Append(@, IterationResult(x, success))]
     IN /\ heap' = WrapperHeap(x, success)
        /\ execs' = [execs EXCEPT ![e] =
             IF success
               THEN [spawned EXCEPT
                       !.pc = IF x.progressFile THEN "log_append" ELSE "prd_save",
                       !.prd = IF Passes(outcome)
                               THEN markStoryComplete(x.prd, x.prd[x.story].id) ELSE @]
               ELSE IF IsFailFast(x)
                      THEN [spawned EXCEPT !.pc = "returned", !.result = LoopError]
                      ELSE EngIterationEnd(spawned, tokenCancelled[e])]
  /\ UNCHANGED <<callVars, diskVars, now, jobs, keyOrder, runningJobs, cancellationTokens, tokenCancelled,
                 cancels, cancelTrue>>

\* LoopExecutor.execute: ProgressTracker.initialize(progressPath) has written the
\* header over whatever the file held; the loop is entered
EngLogInitialized(e) ==
  /\ execs[e].type = "loop"
  /\ execs[e].pc = "log_init"
  /\ execs' = [execs EXCEPT ![e] = EngLoopTop([@ EXCEPT !.log = << >>])]
  /\ UNCHANGED <<callVars, diskVars, now, jobs, keyOrder, heap, runningJobs, cancellationTokens,
                 tokenCancelled, cancels, cancelTrue>>

\* LoopExecutor.execute: ProgressTracker.append(progressPath, {storyId, ...}) has
\* appended the entry; prd.save(options.taskFile) is awaited next
EngLogAppended(e) ==
  /\ execs[e].type = "loop"
  /\ execs[e].pc = "log_append"
  /\ execs' = [execs EXCEPT ![e].pc = "prd_save",
                            ![e].log = Append(@, execs[e].prd[execs[e].story].id)]
  /\ UNCHANGED <<callVars, diskVars, now, jobs, keyOrder, heap, runningJobs, cancellationTokens,
                 tokenCancelled, cancels, cancelTrue>>

PrdSaveNothing(x) == x.taskFile

\* PRD.save(path): writeFile of JSON.stringify(this.spec); the new content of the file
PrdSave(x) == x.prd

\* LoopExecutor.execute: prd.save(options.taskFile) is done; the end of the iteration
EngSaved(e) ==
  /\ execs[e].type = "loop"
  /\ execs[e].pc = "prd_save"
  /\ execs' = [execs EXCEPT ![e] =
                 EngIterationEnd([execs[e] EXCEPT !.taskFile = PrdSave(execs[e])],
                                 tokenCancelled[e])]
  /\ UNCHANGED <<callVars, diskVars, now, jobs, keyOrder, heap, runningJobs, cancellationTokens, tokenCancelled,
                 cancels, cancelTrue>>

\* the wrapper after store.save(currentJob): updateProgress(job.id, {...}) with
\* tasksCompleted read from the job object the wrapper fetched
CbProgress(e, k) ==
  /\ k \in DOMAIN execs[e].cbs
  /\ execs[e].cbs[k].pc = "save"
  /\ LET cb == execs[e].cbs[k]
         seen == heap[cb.job].progress.tasksCompleted
     IN /\ execs' = [execs EXCEPT ![e].cbs =
                       IF Has(cb.jobId)
                         THEN [@ EXCEPT ![k].pc = "progress"]
                         ELSE SubSeq(@, 1, k - 1) \o SubSeq(@, k + 1, Len(@))]
        /\ heap' = Collect(
             StoreUpdateProgress(cb.jobId,
               [NoPartial EXCEPT
                  !.currentIteration = cb.iteration,
                  !.currentTaskId = cb.taskId,
                  !.tasksCompleted = IF cb.success THEN seen + 1 ELSE seen,
                  !.message = "Completed iteration"]),
             jobs, cancels, execs')
        /\ cancelTrue' = CollectCounts(cancelTrue, jobs, cancels, execs')
  /\ UNCHANGED <<callVars, diskVars, now, jobs, keyOrder, runningJobs, cancellationTokens, tokenCancelled, cancels>>

\* the wrapper after updateProgress: job.options.onIteration?.(iteration) and
\* events.onJobProgress?.(updatedJob, updatedJob.progress) are called; the wrapper ends
CbFinish(e, k) ==
  /\ k \in DOMAIN execs[e].cbs
  /\ execs[e].cbs[k].pc = "progress"
  /\ execs' = [execs EXCEPT ![e].cbs = SubSeq(@, 1, k - 1) \o SubSeq(@, k + 1, Len(@))]
  /\ heap' = Collect(heap, jobs, cancels, execs')
  /\ cancelTrue' = CollectCounts(cancelTrue, jobs, cancels, execs')
  /\ UNCHANGED <<callVars, diskVars, now, jobs, keyOrder, runningJobs, cancellationTokens, tokenCancelled, cancels>>

\* loopExecutor.execute returned: updateResult(job.id, result)
LResult(e) ==
  LTry(e, "returned",
       StoreUpdateResult(execs[e].jobId, execs[e].result),
       [execs[e] EXCEPT !.pc = "res_result", !.exc = StoreThrows(execs[e].jobId)])

\* updateProgress(job.id, {tasksCompleted, tasksTotal, message})
LResProgress(e) ==
  LTry(e, "res_result",
       StoreUpdateProgress(execs[e].jobId,
         [NoPartial EXCEPT
            !.tasksCompleted = execs[e].result.tasksCompleted,
            !.tasksTotal = execs[e].result.tasksTotal,
            !.message = IF execs[e].result.completed
                        THEN "All tasks completed" ELSE "Loop finished"]),
       [execs[e] EXCEPT !.pc = "res_progress", !.exc = StoreThrows(execs[e].jobId)])

\* `if (currentStatus !== 'cancelled') await updateStatus(...)`, and for a cancelled
\* job straight on to events.onJobCompleted?.(updatedJob)
LResStatus(e) ==
  IF Has(execs[e].jobId) /\ Job(execs[e].jobId).status = "cancelled"
    THEN LTry(e, "res_progress", heap, [execs[e] EXCEPT !.pc = "hook_completed"])
    ELSE LTry(e, "res_progress",
              StoreUpdateStatus(execs[e].jobId,
                IF execs[e].result.success THEN "completed" ELSE "failed", NoError),
              [execs[e] EXCEPT !.pc = "res_status", !.exc = StoreThrows(execs[e].jobId)])

\* events.onJobCompleted?.(updatedJob) is called
LCallCompleted(e) ==
  LTry(e, "res_status", heap, [execs[e] EXCEPT !.pc = "hook_completed"])

\* onJobCompleted resolved: executeLoop returns
LReturn(e) ==
  /\ execs[e].type = "loop"
  /\ execs[e].pc = "hook_completed"
  /\ LSettled(e)

\* onJobCompleted threw
LCompletedThrows(e) ==
  /\ execs[e].type = "loop"
  /\ execs[e].pc = "hook_completed"
  /\ LCatch(e, HookError, TRUE)

\* catch block: updateProgress(job.id, {message: `Error: ...`})
LErrProgress(e) ==
  /\ execs[e].type = "loop"
  /\ execs[e].pc = "err_status"
  /\ IF execs[e].exc # NoException
       THEN LSettled(e)
       ELSE /\ heap' = StoreUpdateProgress(execs[e].jobId,
                         [NoPartial EXCEPT !.message = "Error"])
            /\ execs' = [execs EXCEPT ![e].pc = "err_progress",
                                      ![e].exc = StoreThrows(execs[e].jobId)]
            /\ UNCHANGED <<callVars, diskVars, now, jobs, keyOrder, runningJobs, cancellationTokens, tokenCancelled,
                           cancels, cancelTrue>>

\* catch block: events.onJobFailed?.(updatedJob, error) is called
LCallFailed(e) ==
  /\ execs[e].type = "loop"
  /\ execs[e].pc = "err_progress"
  /\ IF execs[e].exc # NoException
       THEN LSettled(e)
       ELSE /\ execs' = [execs EXCEPT ![e].pc = "hook_failed"]
            /\ UNCHANGED <<callVars, diskVars, now, jobs, keyOrder, heap, runningJobs, cancellationTokens,
                           tokenCancelled, cancels, cancelTrue>>

\* onJobFailed resolved or threw: the execution promise settles either way
LFailedReturns(e) ==
  /\ execs[e].type = "loop"
  /\ execs[e].pc = "hook_failed"
  /\ LSettled(e)

(***************************************************************************)
(* JobManager.cancel and deleteJob.                                        *)
(***************************************************************************)
\* cancel(jobId) on a job that is not terminal, to the await of updateStatus:
\* token.cancel(), updateStatus(jobId, 'cancelled')
CancelCall(id) ==
  /\ Has(id)
  /\ cancels[id].pc = "idle"
  /\ Job(id).status \notin {"completed", "failed", "cancelled"}
  /\ tokenCancelled' = IF id \in DOMAIN cancellationTokens
                       THEN [tokenCancelled EXCEPT ![cancellationTokens[id]] = TRUE]
                       ELSE tokenCancelled
  /\ execs' = IF id \in DOMAIN cancellationTokens
                THEN [execs EXCEPT ![cancellationTokens[id]].cancelPc =
                        IF @ = "none" THEN execs[cancellationTokens[id]].pc ELSE @]
                ELSE execs
  /\ heap' = StoreUpdateStatus(id, "cancelled", NoError)
  /\ cancels' = [cancels EXCEPT ![id] = [pc |-> "save", job |-> jobs[id]]]
  /\ UNCHANGED <<callVars, diskVars, now, jobs, keyOrder, runningJobs, cancellationTokens, cancelTrue>>

\* cancel(jobId) on a terminal job: returns false
CancelFinished(id) ==
  /\ Has(id)
  /\ Job(id).status \in {"completed", "failed", "cancelled"}
  /\ UNCHANGED vars

\* cancel: events.onJobCancelled?.(job) is called and resolves, cancel returns true
CancelReturn(id) ==
  /\ cancels[id].pc = "save"
  /\ cancels' = [cancels EXCEPT ![id] = IdleCancel]
  /\ heap' = Collect(heap, jobs, cancels', execs)
  /\ cancelTrue' = CollectCounts([cancelTrue EXCEPT ![cancels[id].job] = Bump(@)],
                                 jobs, cancels', execs)
  /\ UNCHANGED <<callVars, diskVars, now, jobs, keyOrder, runningJobs, cancellationTokens, tokenCancelled, execs>>

\* cancel: events.onJobCancelled?.(job) is called and throws, cancel rejects
CancelThrows(id) ==
  /\ cancels[id].pc = "save"
  /\ cancels' = [cancels EXCEPT ![id] = IdleCancel]
  /\ heap' = Collect(heap, jobs, cancels', execs)
  /\ cancelTrue' = CollectCounts(cancelTrue, jobs, cancels', execs)
  /\ UNCHANGED <<callVars, diskVars, now, jobs, keyOrder, runningJobs, cancellationTokens, tokenCancelled, execs>>

\* deleteJob(jobId) on a terminal job: store.delete(jobId)
DeleteJob(id) ==
  /\ Has(id)
  /\ Job(id).status \in {"completed", "failed", "cancelled"}
  /\ jobs' = MapDelete(jobs, id)
  /\ keyOrder' = KeyDelete(keyOrder, id)
  /\ heap' = Collect(heap, jobs', cancels, execs)
  /\ cancelTrue' = CollectCounts(cancelTrue, jobs', cancels, execs)
  /\ UNCHANGED <<callVars, diskVars, now, runningJobs, cancellationTokens, tokenCancelled, execs, cancels>>

Next ==
  \/ \E id \in JobIds : StartSingleShot(id)
  \/ StartRejected
  \/ \E e \in ExecIds : SSLaunch(e)
  \/ \E e \in ExecIds : SSRunProgress(e)
  \/ \E e \in ExecIds : SSCallStarted(e)
  \/ \E e \in ExecIds : SSExecute(e)
  \/ \E e \in ExecIds : SSStartedThrows(e)
  \/ \E e \in ExecIds, success \in BOOLEAN : SSWorkerReturns(e, success)
  \/ \E e \in ExecIds : SSResProgress(e)
  \/ \E e \in ExecIds : SSResStatus(e)
  \/ \E e \in ExecIds : SSCallCompleted(e)
  \/ \E e \in ExecIds : SSReturn(e)
  \/ \E e \in ExecIds : SSCompletedThrows(e)
  \/ \E e \in ExecIds : SSErrProgress(e)
  \/ \E e \in ExecIds : SSCallFailed(e)
  \/ \E e \in ExecIds : SSFailedReturns(e)
  \/ \E id \in JobIds : CancelCall(id)
  \/ \E id \in JobIds : CancelFinished(id)
  \/ \E id \in JobIds : CancelReturn(id)
  \/ \E id \in JobIds : CancelThrows(id)
  \/ \E id \in JobIds : DeleteJob(id)

Spec == Init /\ [][Next]_vars

(***************************************************************************)
(* Loop jobs: the same manager, started through startLoop.                 *)
(***************************************************************************)
\* accepted startLoop calls
MaxLoopExecs == 1
LoopSlotFree == Cardinality(FreeExecs) > MaxExecs - MaxLoopExecs

NextLoop ==
  \/ StartRejected
  \/ \E id \in JobIds, file \in TaskFiles, failFast \in BOOLEAN :
       LoopSlotFree /\ StartLoop(id, file, failFast)
  \/ \E e \in ExecIds : LLaunch(e)
  \/ \E e \in ExecIds : LRunProgress(e)
  \/ \E e \in ExecIds : LCallStarted(e)
  \/ \E e \in ExecIds : LExecute(e)
  \/ \E e \in ExecIds : LStartedThrows(e)
  \/ \E e \in ExecIds : EngLoaded(e)
  \/ \E e \in ExecIds : EngLoadFails(e)
  \/ \E e \in ExecIds, outcome \in {"fail", "nopass", "pass"} : EngWorkerReturns(e, outcome)
  \/ \E e \in ExecIds : EngSaved(e)
  \/ \E e \in ExecIds, k \in 1..LoopMaxIterations : CbProgress(e, k)
  \/ \E e \in ExecIds, k \in 1..LoopMaxIterations : CbFinish(e, k)
  \/ \E e \in ExecIds : LResult(e)
  \/ \E e \in ExecIds : LResProgress(e)
  \/ \E e \in ExecIds : LResStatus(e)
  \/ \E e \in ExecIds : LCallCompleted(e)
  \/ \E e \in ExecIds : LReturn(e)
  \/ \E e \in ExecIds : LCompletedThrows(e)
  \/ \E e \in ExecIds : LErrProgress(e)
  \/ \E e \in ExecIds : LCallFailed(e)
  \/ \E e \in ExecIds : LFailedReturns(e)
  \/ \E id \in JobIds : CancelCall(id)
  \/ \E id \in JobIds : CancelFinished(id)
  \/ \E id \in JobIds : CancelReturn(id)
  \/ \E id \in JobIds : CancelThrows(id)
  \/ \E id \in JobIds : DeleteJob(id)

SpecLoop == Init /\ [][NextLoop]_vars

\* Loop jobs alone, two background executions at a time: startLoop takes the
\* caller's jobId as it is (startOptions.jobId ?? randomUUID()), so a second loop
\* can be started on an id whose first loop is still running. Every call names
\* job 1, a backlog of one story and the fail-fast strategy; no hook throws,
\* nothing is cancelled or deleted.
NextTwoLoops ==
  \/ StartRejected
  \/ StartLoop(1, <<StoryA>>, TRUE)
  \/ \E e \in ExecIds : LLaunch(e)
  \/ \E e \in ExecIds : LRunProgress(e)
  \/ \E e \in ExecIds : LCallStarted(e)
  \/ \E e \in ExecIds : LExecute(e)
  \/ \E e \in ExecIds : EngLoaded(e)
  \/ \E e \in ExecIds, outcome \in {"fail", "nopass", "pass"} : EngWorkerReturns(e, outcome)
  \/ \E e \in ExecIds : EngSaved(e)
  \/ \E e \in ExecIds, k \in 1..LoopMaxIterations : CbProgress(e, k)
  \/ \E e \in ExecIds, k \in 1..LoopMaxIterations : CbFinish(e, k)
  \/ \E e \in ExecIds : LResult(e)
  \/ \E e \in ExecIds : LResProgress(e)
  \/ \E e \in ExecIds : LResStatus(e)
  \/ \E e \in ExecIds : LCallCompleted(e)
  \/ \E e \in ExecIds : LReturn(e)

SpecTwoLoops == Init /\ [][NextTwoLoops]_vars

(***************************************************************************)
(* Restart: the process ends, and its successor initializes a JobStore     *)
(* with persistToFile on the same directory.                               *)
(***************************************************************************)
\* every save of the ended process wrote its job to <id>.json and every delete
\* unlinked it, so the directory holds the jobs of the store as last saved;
\* the successor starts with an empty store and reads the directory (readdir)
Restart ==
  /\ phase = "up"
  /\ files' = [id \in JobIds |-> IF Has(id) THEN serializeJob(Job(id)) ELSE NoFile]
  /\ persisted' = [id \in JobIds |-> IF Has(id) THEN Job(id) ELSE NoObject]
  /\ phase' = "loading"
  /\ toLoad' = DOMAIN jobs
  /\ jobs' = << >>
  /\ heap' = [o \in ExecIds |-> NoObject]
  /\ runningJobs' = {}
  /\ cancellationTokens' = << >>
  /\ tokenCancelled' = [e \in ExecIds |-> FALSE]
  /\ execs' = [e \in ExecIds |-> IF execs[e].pc = "idle" THEN IdleExec ELSE DoneExec]
  /\ cancels' = [id \in JobIds |-> IdleCancel]
  /\ cancelTrue' = [e \in ExecIds |-> 0]
  /\ keyOrder' = << >>
  /\ UNCHANGED <<now, callVars, loaders, token>>

\* the object slot a loaded job takes
FreeSlots == {o \in ExecIds : heap[o].type = "none"}
NextSlot == CHOOSE o \in FreeSlots : \A q \in FreeSlots : o <= q

\* loadPersistedJobs: one pass of the loop over the files
LoadFile(id) ==
  /\ phase = "loading"
  /\ id \in toLoad
  /\ toLoad' = toLoad \ {id}
  /\ LET job == deserializeJob(files[id]) IN
       IF ReadThrows(files[id])
         THEN UNCHANGED <<jobs, keyOrder, heap, files>>
         ELSE IF job.status \notin {"completed", "failed", "cancelled"}
                THEN /\ jobs' = MapSet(jobs, job.id, NextSlot)
                     /\ keyOrder' = KeySet(keyOrder, job.id)
                     /\ heap' = [heap EXCEPT ![NextSlot] = RecoverJob(job, now)]
                     /\ files' = files
                ELSE IF WithinMaxAge(job, now)
                       THEN /\ jobs' = MapSet(jobs, job.id, NextSlot)
                            /\ keyOrder' = KeySet(keyOrder, job.id)
                            /\ heap' = [heap EXCEPT ![NextSlot] = job]
                            /\ files' = files
                       ELSE /\ files' = [files EXCEPT ![id] = NoFile]
                            /\ UNCHANGED <<jobs, keyOrder, heap>>
  /\ UNCHANGED <<callVars, loaders, token, now, persisted, phase, runningJobs, cancellationTokens, tokenCancelled,
                 execs, cancels, cancelTrue>>

\* initialize() returns
InitDone ==
  /\ phase = "loading"
  /\ toLoad = {}
  /\ phase' = "ready"
  /\ UNCHANGED <<callVars, now, jobs, keyOrder, heap, runningJobs, cancellationTokens,
                 tokenCancelled, execs, cancels, cancelTrue, files, persisted, toLoad, loaders,
                 token>>

\* accepted start calls before the restart
MaxRestartExecs == 2
RestartSlotFree == Cardinality(FreeExecs) > MaxExecs - MaxRestartExecs

\* randomUUID(): an id no job, execution or file bears
FreshIds ==
  {id \in JobIds : /\ ~Has(id)
                   /\ \A e \in ExecIds : execs[e].jobId # id
                   /\ ~files[id].present}

Up == phase = "up"

NextRestart ==
  \/ \E id \in FreshIds : Up /\ RestartSlotFree /\ StartSingleShot(id)
  \/ Up /\ StartRejected
  \/ \E e \in ExecIds : SSLaunch(e)
  \/ \E e \in ExecIds : SSRunProgress(e)
  \/ \E e \in ExecIds : SSCallStarted(e)
  \/ \E e \in ExecIds : SSExecute(e)
  \/ \E e \in ExecIds : SSStartedThrows(e)
  \/ \E e \in ExecIds, success \in BOOLEAN : SSWorkerReturns(e, success)
  \/ \E e \in ExecIds : SSResProgress(e)
  \/ \E e \in ExecIds : SSResStatus(e)
  \/ \E e \in ExecIds : SSCallCompleted(e)
  \/ \E e \in ExecIds : SSReturn(e)
  \/ \E e \in ExecIds : SSCompletedThrows(e)
  \/ \E e \in ExecIds : SSErrProgress(e)
  \/ \E e \in ExecIds : SSCallFailed(e)
  \/ \E e \in ExecIds : SSFailedReturns(e)
  \/ \E id \in JobIds : Up /\ CancelCall(id)
  \/ \E id \in JobIds : Up /\ CancelFinished(id)
  \/ \E id \in JobIds : CancelReturn(id)
  \/ \E id \in JobIds : CancelThrows(id)
  \/ Tick
  \/ Restart
  \/ \E id \in JobIds : LoadFile(id)
  \/ InitDone

SpecRestart == Init /\ [][NextRestart]_vars

\* the steps of the background execution e: each is the continuation of an await
\* on a store update, on a hook or on the worker, all of which settle
ExecStep(e) ==
  \/ SSLaunch(e)
  \/ SSRunProgress(e)
  \/ SSCallStarted(e)
  \/ SSExecute(e)
  \/ \E success \in BOOLEAN : SSWorkerReturns(e, success)
  \/ SSResProgress(e)
  \/ SSResStatus(e)
  \/ SSCallCompleted(e)
  \/ SSReturn(e)
  \/ SSErrProgress(e)
  \/ SSCallFailed(e)
  \/ SSFailedReturns(e)

\* the continuation of cancel(id) after its await of updateStatus
CancelStep(id) == CancelReturn(id) \/ CancelThrows(id)

\* the steps of initialize() in the successor process
LoadStep == (\E id \in JobIds : LoadFile(id)) \/ InitDone

\* fair scheduling: every continuation that is ready runs
SpecRestartFair ==
  /\ SpecRestart
  /\ \A e \in ExecIds : WF_vars(ExecStep(e))
  /\ \A id \in JobIds : WF_vars(CancelStep(id))
  /\ WF_vars(LoadStep)

(***************************************************************************)
(* JobStore.cleanup and the refusal of deleteJob.                          *)
(***************************************************************************)
\* deleteJob(jobId) on a job that is not terminal: raises, nothing is deleted
DeleteRejected(id) ==
  /\ Has(id)
  /\ Job(id).status \notin {"completed", "failed", "cancelled"}
  /\ UNCHANGED vars

\* cleanup: the test of the first loop, `now - completedAt > maxJobAge` on a
\* terminal job
Expired(job, t) ==
  /\ job.status \in {"completed", "failed", "cancelled"}
  /\ t - CompletedOrCreated(job) > maxJobAge

\* cleanup: toDelete, in the iteration order of the map
toDelete == SelectSeq(keyOrder, LAMBDA id : Expired(Job(id), now))

\* store.delete(id) as cleanup calls it
SweepDelete(id) ==
  /\ jobs' = MapDelete(jobs, id)
  /\ keyOrder' = KeyDelete(keyOrder, id)
  /\ heap' = Collect(heap, jobs', cancels, execs)
  /\ cancelTrue' = CollectCounts(cancelTrue, jobs', cancels, execs)

\* cleanup() from its call to its first await: toDelete is collected and the
\* first of it is deleted; with nothing to delete it returns 0
CleanupCall ==
  /\ ~sweep.active
  /\ IF toDelete = << >>
       THEN /\ lastCall' = [op |-> "cleanup", id |-> 0, threw |-> "none", value |-> 0]
            /\ UNCHANGED <<sweep, jobs, keyOrder, heap, cancelTrue>>
       ELSE /\ SweepDelete(Head(toDelete))
            /\ sweep' = [active |-> TRUE, rest |-> Tail(toDelete),
                         count |-> Len(toDelete)]
            /\ UNCHANGED lastCall
  /\ UNCHANGED <<diskVars, waiter, now, runningJobs, cancellationTokens, tokenCancelled,
                 execs, cancels>>

\* cleanup() resumed after `await this.delete(id)`: the next of toDelete is deleted
CleanupNext ==
  /\ sweep.active
  /\ sweep.rest # << >>
  /\ SweepDelete(Head(sweep.rest))
  /\ sweep' = [sweep EXCEPT !.rest = Tail(@)]
  /\ UNCHANGED <<lastCall, diskVars, waiter, now, runningJobs, cancellationTokens,
                 tokenCancelled, execs, cancels>>

\* cleanup() resumed after the last delete: returns toDelete.length
CleanupReturn ==
  /\ sweep.active
  /\ sweep.rest = << >>
  /\ sweep' = NoSweep
  /\ lastCall' = [op |-> "cleanup", id |-> 0, threw |-> "none", value |-> sweep.count]
  /\ UNCHANGED <<diskVars, waiter, now, jobs, keyOrder, heap, runningJobs, cancellationTokens,
                 tokenCancelled, execs, cancels, cancelTrue>>

\* the clock of the runs in which jobs grow older than maxJobAge
MaxSweepTime == 2

\* time passes
LateTick ==
  /\ now < MaxSweepTime
  /\ now' = now + 1
  /\ UNCHANGED <<callVars, diskVars, jobs, keyOrder, heap, runningJobs,
                 cancellationTokens, tokenCancelled, execs, cancels, cancelTrue>>

\* the message of the Error poll and cancel throw for an id the store lacks
JobNotFound == "Job not found"

\* poll(jobId) when store.get(jobId) is undefined: throws
PollUnknown(id) ==
  /\ ~Has(id)
  /\ ~sweep.active
  /\ lastCall' = [op |-> "poll", id |-> id, threw |-> JobNotFound, value |-> 0]
  /\ UNCHANGED <<sweep, diskVars, waiter, now, jobs, keyOrder, heap, runningJobs, cancellationTokens,
                 tokenCancelled, execs, cancels, cancelTrue>>

\* cancel(jobId) when store.get(jobId) is undefined: throws
CancelUnknown(id) ==
  /\ ~Has(id)
  /\ ~sweep.active
  /\ lastCall' = [op |-> "cancel", id |-> id, threw |-> JobNotFound, value |-> 0]
  /\ UNCHANGED <<sweep, diskVars, waiter, now, jobs, keyOrder, heap, runningJobs, cancellationTokens,
                 tokenCancelled, execs, cancels, cancelTrue>>

\* JobStore.get(jobId) for an id the store lacks: returns undefined
GetUnknown(id) ==
  /\ ~Has(id)
  /\ ~sweep.active
  /\ lastCall' = [op |-> "get", id |-> id, threw |-> "none", value |-> Undefined]
  /\ UNCHANGED <<sweep, diskVars, waiter, now, jobs, keyOrder, heap, runningJobs, cancellationTokens,
                 tokenCancelled, execs, cancels, cancelTrue>>

\* the job a single-shot run that succeeded at time 0 leaves in the store
SeedJob ==
  LET started == SetStatus(NewJob(1, "single-shot", 1, 0), "running", NoError, 0)
      running == MergeProgress(started, [NoPartial EXCEPT !.message = "Executing task..."], 0)
      stored == SetResult(running, ExecuteResult(TRUE))
      counted == MergeProgress(stored, [NoPartial EXCEPT !.tasksCompleted = 1,
                                                         !.message = "Task completed"], 0)
  IN SetStatus(counted, "completed", NoError, 0)

\* a manager whose first job (id 1) has run to completion at time 0
InitSeeded ==
  /\ now = 0
  /\ jobs = (1 :> 1)
  /\ keyOrder = <<1>>
  /\ heap = [e \in ExecIds |-> IF e = 1 THEN SeedJob ELSE NoObject]
  /\ runningJobs = {}
  /\ cancellationTokens = << >>
  /\ tokenCancelled = [e \in ExecIds |-> FALSE]
  /\ execs = [e \in ExecIds |-> IF e = 1 THEN DoneExec ELSE IdleExec]
  /\ cancels = [id \in JobIds |-> IdleCancel]
  /\ cancelTrue = [e \in ExecIds |-> 0]
  /\ files = [id \in JobIds |-> NoFile]
  /\ persisted = [id \in JobIds |-> NoObject]
  /\ phase = "up"
  /\ toLoad = {}
  /\ sweep = NoSweep
  /\ lastCall = NoCall
  /\ waiter = IdleWaiter
  /\ loaders = NoLoaders
  /\ token = NewCancellationToken

NextCleanup ==
  \/ \E id \in JobIds : StartSingleShot(id)
  \/ StartRejected
  \/ \E e \in ExecIds : SSLaunch(e)
  \/ \E e \in ExecIds : SSRunProgress(e)
  \/ \E e \in ExecIds : SSCallStarted(e)
  \/ \E e \in ExecIds : SSExecute(e)
  \/ \E e \in ExecIds : SSStartedThrows(e)
  \/ \E e \in ExecIds, success \in BOOLEAN : SSWorkerReturns(e, success)
  \/ \E e \in ExecIds : SSResProgress(e)
  \/ \E e \in ExecIds : SSResStatus(e)
  \/ \E e \in ExecIds : SSCallCompleted(e)
  \/ \E e \in ExecIds : SSReturn(e)
  \/ \E e \in ExecIds : SSCompletedThrows(e)
  \/ \E e \in ExecIds : SSErrProgress(e)
  \/ \E e \in ExecIds : SSCallFailed(e)
  \/ \E e \in ExecIds : SSFailedReturns(e)
  \/ \E id \in JobIds : CancelCall(id)
  \/ \E id \in JobIds : CancelFinished(id)
  \/ \E id \in JobIds : CancelReturn(id)
  \/ \E id \in JobIds : CancelThrows(id)
  \/ \E id \in JobIds : DeleteJob(id)
  \/ \E id \in JobIds : DeleteRejected(id)
  \/ \E id \in JobIds : PollUnknown(id)
  \/ \E id \in JobIds : CancelUnknown(id)
  \/ \E id \in JobIds : GetUnknown(id)
  \/ CleanupCall
  \/ CleanupNext
  \/ CleanupReturn
  \/ LateTick

SpecCleanup == InitSeeded /\ [][NextCleanup]_vars

(***************************************************************************)
(* Executions over time: a settled execution whose job object nothing      *)
(* refers to any more leaves its slot to the next start call.              *)
(***************************************************************************)
Release(e) ==
  /\ execs[e].pc = "done"
  /\ heap[e] = NoObject
  /\ execs[e].cbs = << >>
  /\ execs' = [execs EXCEPT ![e] = IdleExec]
  /\ tokenCancelled' = [tokenCancelled EXCEPT ![e] = FALSE]
  /\ UNCHANGED <<callVars, diskVars, now, jobs, keyOrder, heap, runningJobs, cancellationTokens,
                 cancels, cancelTrue>>

NextReuse ==
  \/ \E id \in JobIds : StartSingleShot(id)
  \/ StartRejected
  \/ \E e \in ExecIds : SSLaunch(e)
  \/ \E e \in ExecIds : SSRunProgress(e)
  \/ \E e \in ExecIds : SSCallStarted(e)
  \/ \E e \in ExecIds : SSExecute(e)
  \/ \E e \in ExecIds, success \in BOOLEAN : SSWorkerReturns(e, success)
  \/ \E e \in ExecIds : SSResProgress(e)
  \/ \E e \in ExecIds : SSResStatus(e)
  \/ \E e \in ExecIds : SSCallCompleted(e)
  \/ \E e \in ExecIds : SSReturn(e)
  \/ \E e \in ExecIds : Release(e)
  \/ Tick

SpecReuse == Init /\ [][NextReuse]_vars

(***************************************************************************)
(* persistToFile with a disk that can refuse a write: JobStore.save awaits *)
(* persistJob, and persistJob awaits fs.writeFile, neither inside a try.   *)
(***************************************************************************)
\* the message of the Error fs.writeFile rejects with
WriteError == "EIO: write failed"

\* the write of the store update an execution awaits fails: persistJob, save and
\* the update reject with the write error; the in-memory record keeps the update
WriteFails(e) ==
  /\ execs[e].type = "single-shot"
  /\ execs[e].pc \in AfterStoreUpdate
  /\ execs[e].exc = NoException
  /\ execs' = [execs EXCEPT ![e].exc = WriteError]
  /\ UNCHANGED <<callVars, diskVars, now, jobs, keyOrder, heap, runningJobs, cancellationTokens,
                 tokenCancelled, cancels, cancelTrue>>

\* the write of startSingleShot's store.save(job) fails: startSingleShot rejects
\* before executeSingleShot is called
StartSaveFails(e) ==
  /\ execs[e].type = "single-shot"
  /\ execs[e].pc = "start_save"
  /\ execs' = [execs EXCEPT ![e] = DoneExec]
  /\ UNCHANGED <<callVars, diskVars, now, jobs, keyOrder, heap, runningJobs, cancellationTokens,
                 tokenCancelled, cancels, cancelTrue>>

NextDisk ==
  \/ \E id \in JobIds : StartSingleShot(id)
  \/ StartRejected
  \/ \E e \in ExecIds : SSLaunch(e)
  \/ \E e \in ExecIds : SSRunProgress(e)
  \/ \E e \in ExecIds : SSCallStarted(e)
  \/ \E e \in ExecIds : SSExecute(e)
  \/ \E e \in ExecIds, success \in BOOLEAN : SSWorkerReturns(e, success)
  \/ \E e \in ExecIds : SSResProgress(e)
  \/ \E e \in ExecIds : SSResStatus(e)
  \/ \E e \in ExecIds : SSCallCompleted(e)
  \/ \E e \in ExecIds : SSReturn(e)
  \/ \E e \in ExecIds : SSErrProgress(e)
  \/ \E e \in ExecIds : SSCallFailed(e)
  \/ \E e \in ExecIds : SSFailedReturns(e)
  \/ \E e \in ExecIds : WriteFails(e)
  \/ \E e \in ExecIds : StartSaveFails(e)
  \/ Tick

SpecDisk == Init /\ [][NextDisk]_vars

(***************************************************************************)
(* JobStore used on its own (the package exports it): a client saves job   *)
(* objects and reports progress on them.                                   *)
(***************************************************************************)
\* the Partial<JobProgress> arguments a client passes
Partials ==
  << NoPartial,
     [NoPartial EXCEPT !.tasksCompleted = 1, !.message = "working"],
     [NoPartial EXCEPT !.currentIteration = 1, !.currentTaskId = "A", !.tasksTotal = 2],
     [NoPartial EXCEPT !.tasksCompleted = 0, !.tasksTotal = 0] >>

\* save(job) of a new job object, with or without a progress field
StoreSave(id, withProgress) ==
  /\ FreeSlots # {} \/ Has(id)
  /\ LET o == IF Has(id) THEN jobs[id] ELSE NextSlot
         job == NewJob(id, "single-shot", 1, now)
     IN /\ jobs' = MapSet(jobs, id, o)
        /\ heap' = [heap EXCEPT ![o] =
                      IF withProgress THEN job ELSE [job EXCEPT !.progress = NoProgress]]
  /\ keyOrder' = KeySet(keyOrder, id)
  /\ lastCall' = [op |-> "save", id |-> id, threw |-> "none", value |-> 0]
  /\ UNCHANGED <<sweep, diskVars, waiter, now, runningJobs, cancellationTokens, tokenCancelled,
                 execs, cancels, cancelTrue>>

\* updateProgress(id, Partials[k]) on a job of the store
StoreProgress(id, k) ==
  /\ Has(id)
  /\ heap' = StoreUpdateProgress(id, Partials[k])
  /\ lastCall' = [op |-> "updateProgress", id |-> id, threw |-> "none", value |-> k]
  /\ UNCHANGED <<sweep, diskVars, waiter, now, jobs, keyOrder, runningJobs, cancellationTokens,
                 tokenCancelled, execs, cancels, cancelTrue>>

\* updateProgress(id, Partials[k]) on an id the store lacks: throws
StoreProgressUnknown(id, k) ==
  /\ ~Has(id)
  /\ lastCall' = [op |-> "updateProgress", id |-> id, threw |-> StoreThrows(id), value |-> k]
  /\ UNCHANGED <<sweep, diskVars, waiter, now, jobs, keyOrder, heap, runningJobs, cancellationTokens,
                 tokenCancelled, execs, cancels, cancelTrue>>

NextStore ==
  \/ \E id \in JobIds, withProgress \in BOOLEAN : StoreSave(id, withProgress)
  \/ \E id \in JobIds, k \in DOMAIN Partials : StoreProgress(id, k)
  \/ \E id \in JobIds, k \in DOMAIN Partials : StoreProgressUnknown(id, k)
  \/ Tick

SpecStore == Init /\ [][NextStore]_vars

(***************************************************************************)
(* ClaudeCodeManager.executeLoop: LoopExecutor.execute called directly,    *)
(* without a job; the caller keeps the cancellation token.                 *)
(***************************************************************************)
StoryC == [id |-> "C", priority |-> 1, passes |-> FALSE]

\* the backlog files of direct runs: priorities 2 and 1, a tie between the second
\* and the third story, a single story, a finished backlog
Backlogs ==
  {<<StoryA, StoryB>>, <<StoryA, StoryB, StoryC>>, <<StoryA>>,
   <<[StoryB EXCEPT !.passes = TRUE]>>}

\* the maxIterations a caller passes; 0 stands for none, which is run on the
\* finished backlog only
MaxCap == 4
Caps(file) == IF getNextStory(file) = 0 THEN 0..MaxCap ELSE 1..MaxCap

\* the caps of a run and of the run after it
MaxRerunCap == 3

\* runs per behaviour
MaxEngineExecs == 1
EngineSlotFree == Cardinality(FreeExecs) > MaxExecs - MaxEngineExecs

\* executeLoop(options): LoopExecutor.execute runs to its await of PRD.load
EngineCall(file, failFast, cap, progressFile) ==
  /\ EngineSlotFree
  /\ cap \in Caps(file)
  /\ execs' = [execs EXCEPT ![NextExec] =
                 [IdleExec EXCEPT !.pc = "load", !.type = "loop",
                                  !.maxIterations = MaxIterationsOf(cap),
                                  !.failFast = failFast, !.prd = file,
                                  !.progressFile = progressFile,
                                  !.taskFile = file]]
  /\ tokenCancelled' = [tokenCancelled EXCEPT ![NextExec] = FALSE]
  /\ lastCall' = [op |-> "executeLoop", id |-> NextExec, threw |-> "none", value |-> cap]
  /\ UNCHANGED <<sweep, diskVars, waiter, now, jobs, keyOrder, heap, runningJobs, cancellationTokens,
                 cancels, cancelTrue>>

\* the caller calls options.cancelToken.cancel() while the run is under way
TokenCancel(e) ==
  /\ execs[e].type = "loop"
  /\ execs[e].pc \in {"load", "log_init", "worker", "log_append", "prd_save"}
  /\ ~tokenCancelled[e]
  /\ tokenCancelled' = [tokenCancelled EXCEPT ![e] = TRUE]
  /\ execs' = [execs EXCEPT ![e].cancelPc = execs[e].pc]
  /\ UNCHANGED <<callVars, diskVars, now, jobs, keyOrder, heap, runningJobs, cancellationTokens,
                 cancels, cancelTrue>>

\* executeLoop returns the LoopResult to its caller
EngineReturn(e) ==
  /\ execs[e].type = "loop"
  /\ execs[e].pc = "returned"
  /\ execs' = [execs EXCEPT ![e].pc = "done"]
  /\ UNCHANGED <<callVars, diskVars, now, jobs, keyOrder, heap, runningJobs, cancellationTokens,
                 tokenCancelled, cancels, cancelTrue>>

EngineStep(e) ==
  \/ EngLoaded(e)
  \/ EngLogInitialized(e)
  \/ \E outcome \in {"fail", "nopass", "pass"} : EngWorkerReturns(e, outcome)
  \/ EngLogAppended(e)
  \/ EngSaved(e)
  \/ EngineReturn(e)

NextEngine ==
  \/ \E file \in Backlogs, failFast \in BOOLEAN, cap \in 0..MaxCap, progressFile \in BOOLEAN :
       EngineCall(file, failFast, cap, progressFile)
  \/ \E e \in ExecIds : EngLoadFails(e)
  \/ \E e \in ExecIds : TokenCancel(e)
  \/ \E e \in ExecIds : EngineStep(e)

SpecEngine == Init /\ [][NextEngine]_vars

\* PRD.load and every worker invocation return, and the file writes complete
SpecEngineFair == SpecEngine /\ \A e \in ExecIds : WF_vars(EngineStep(e))

(***************************************************************************)
(* A run of the engine, its end (return or process stop), and a later run  *)
(* on the same backlog file.                                               *)
(***************************************************************************)
\* the process stops while the run awaits PRD.load, ProgressTracker.initialize or
\* the worker: no bookkeeping of an iteration is under way
EngineStop(e) ==
  /\ execs[e].type = "loop"
  /\ execs[e].pc \in {"load", "log_init", "worker"}
  /\ execs' = [execs EXCEPT ![e].pc = "stopped"]
  /\ UNCHANGED <<callVars, diskVars, now, jobs, keyOrder, heap, runningJobs, cancellationTokens,
                 tokenCancelled, cancels, cancelTrue>>

\* the process stops in the bookkeeping of an iteration, while the run awaits
\* ProgressTracker.append or prd.save; the write of prd.save has reached the file
\* (written) or not
EngineStopInBookkeeping(e, written) ==
  /\ execs[e].type = "loop"
  /\ execs[e].pc \in {"log_append", "prd_save"}
  /\ written => execs[e].pc = "prd_save"
  /\ execs' = [execs EXCEPT ![e].pc = "stopped_in_bookkeeping",
                            ![e].taskFile = IF written THEN PrdSave(execs[e]) ELSE @]
  /\ UNCHANGED <<callVars, diskVars, now, jobs, keyOrder, heap, runningJobs, cancellationTokens,
                 tokenCancelled, cancels, cancelTrue>>

Ended == {"done", "stopped", "stopped_in_bookkeeping"}

\* the run that has ended, if any
EarlierRuns == {e \in ExecIds : execs[e].type = "loop" /\ execs[e].pc \in Ended}

\* executeLoop(options) with the taskFile of the run that has ended: the backlog
\* PRD.load reads is the content that run left in the file
EngineRerun(e1, failFast, cap) ==
  /\ EarlierRuns = {e1}
  /\ FreeExecs # {}
  /\ cap \in 1..MaxRerunCap
  /\ execs' = [execs EXCEPT ![NextExec] =
                 [IdleExec EXCEPT !.pc = "load", !.type = "loop",
                                  !.maxIterations = MaxIterationsOf(cap),
                                  !.failFast = failFast, !.prd = execs[e1].taskFile,
                                  !.taskFile = execs[e1].taskFile, !.earlier = e1]]
  /\ tokenCancelled' = [tokenCancelled EXCEPT ![NextExec] = FALSE]
  /\ lastCall' = [op |-> "executeLoop", id |-> NextExec, threw |-> "none", value |-> cap]
  /\ UNCHANGED <<sweep, diskVars, waiter, now, jobs, keyOrder, heap, runningJobs, cancellationTokens,
                 cancels, cancelTrue>>

NextRerun ==
  \/ \E file \in Backlogs, failFast \in BOOLEAN, cap \in 1..MaxRerunCap :
       EngineCall(file, failFast, cap, FALSE)
  \/ \E e \in ExecIds : TokenCancel(e)
  \/ \E e \in ExecIds : EngineStop(e)
  \/ \E e \in ExecIds, written \in BOOLEAN : EngineStopInBookkeeping(e, written)
  \/ \E e1 \in ExecIds, failFast \in BOOLEAN, cap \in 1..MaxRerunCap :
       EngineRerun(e1, failFast, cap)
  \/ \E e \in ExecIds : EngLoaded(e)
  \/ \E e \in ExecIds, outcome \in {"fail", "nopass", "pass"} : EngWorkerReturns(e, outcome)
  \/ \E e \in ExecIds : EngSaved(e)
  \/ \E e \in ExecIds : EngineReturn(e)

SpecRerun == Init /\ [][NextRerun]_vars

(***************************************************************************)
(* JobManager.waitForCompletion: one call in flight, next to single-shot   *)
(* jobs that are started, cancelled and deleted.                           *)
(***************************************************************************)
WaiterFrame ==
  UNCHANGED <<sweep, lastCall, diskVars, now, jobs, keyOrder, heap, runningJobs,
              cancellationTokens, tokenCancelled, execs, cancels, cancelTrue>>

\* waitForCompletion(jobId): it calls poll(jobId), which awaits ensureInitialized()
WaitCall(id) ==
  /\ waiter.pc \in {"idle", "returned", "threw"}
  /\ waiter' = [pc |-> "poll", id |-> id, result |-> << >>]
  /\ WaiterFrame

\* poll after its await: store.get(jobId); it throws 'Job not found' or returns
\* the result object, and waitForCompletion awaits that promise
WaitPolled ==
  /\ waiter.pc = "poll"
  /\ waiter' = IF Has(waiter.id)
                 THEN [waiter EXCEPT !.pc = "polled", !.result = poll(Job(waiter.id))]
                 ELSE [waiter EXCEPT !.pc = "threw"]
  /\ WaiterFrame

\* waitForCompletion after `await this.poll(jobId)`: return result when
\* result.finished, else await this.sleep(pollIntervalMs)
WaitResumed ==
  IF waiter.result.finished THEN [waiter EXCEPT !.pc = "returned"]
                            ELSE [waiter EXCEPT !.pc = "sleep", !.result = << >>]

WaitResume ==
  /\ waiter.pc = "polled"
  /\ waiter' = WaitResumed
  /\ WaiterFrame

\* the sleep is over: the next round of the loop calls poll(jobId) again
WaitWake ==
  /\ waiter.pc = "sleep"
  /\ waiter' = [waiter EXCEPT !.pc = "poll"]
  /\ WaiterFrame

MaxWaitExecs == 1
WaitSlotFree == Cardinality(FreeExecs) > MaxExecs - MaxWaitExecs

NextWait ==
  \/ \E id \in JobIds : WaitSlotFree /\ StartSingleShot(id)
  \/ StartRejected
  \/ \E e \in ExecIds : SSLaunch(e)
  \/ \E e \in ExecIds : SSRunProgress(e)
  \/ \E e \in ExecIds : SSCallStarted(e)
  \/ \E e \in ExecIds : SSExecute(e)
  \/ \E e \in ExecIds : SSStartedThrows(e)
  \/ \E e \in ExecIds, success \in BOOLEAN : SSWorkerReturns(e, success)
  \/ \E e \in ExecIds : SSResProgress(e)
  \/ \E e \in ExecIds : SSResStatus(e)
  \/ \E e \in ExecIds : SSCallCompleted(e)
  \/ \E e \in ExecIds : SSReturn(e)
  \/ \E e \in ExecIds : SSCompletedThrows(e)
  \/ \E e \in ExecIds : SSErrProgress(e)
  \/ \E e \in ExecIds : SSCallFailed(e)
  \/ \E e \in ExecIds : SSFailedReturns(e)
  \/ \E id \in JobIds : CancelCall(id)
  \/ \E id \in JobIds : CancelFinished(id)
  \/ \E id \in JobIds : CancelReturn(id)
  \/ \E id \in JobIds : CancelThrows(id)
  \/ \E id \in JobIds : DeleteJob(id)
  \/ \E id \in JobIds : WaitCall(id)
  \/ WaitPolled
  \/ WaitResume
  \/ WaitWake

SpecWait == Init /\ [][NextWait]_vars

(***************************************************************************)
(* A manager with persistToFile that is not initialized yet: every API     *)
(* call awaits ensureInitialized(), and `initialized` is set only after    *)
(* store.initialize() has returned.                                        *)
(***************************************************************************)
\* a constructed manager on an empty store directory
InitFresh ==
  /\ now = 0
  /\ jobs = << >>
  /\ heap = [e \in ExecIds |-> NoObject]
  /\ runningJobs = {}
  /\ cancellationTokens = << >>
  /\ tokenCancelled = [e \in ExecIds |-> FALSE]
  /\ execs = [e \in ExecIds |-> IdleExec]
  /\ cancels = [id \in JobIds |-> IdleCancel]
  /\ cancelTrue = [e \in ExecIds |-> 0]
  /\ files = [id \in JobIds |-> NoFile]
  /\ persisted = [id \in JobIds |-> NoObject]
  /\ phase = "loading"
  /\ toLoad = {}
  /\ keyOrder = << >>
  /\ sweep = NoSweep
  /\ lastCall = NoCall
  /\ waiter = IdleWaiter
  /\ loaders = NoLoaders
  /\ token = NewCancellationToken

\* this.initialized
Initialized == phase = "ready"

\* <id>.json as the saves of the store leave it: the file of a stored job holds
\* the job as it was last saved
DirFile(id) == IF Has(id) THEN serializeJob(Job(id)) ELSE files[id]

LoaderFrame ==
  UNCHANGED <<callVars, now, runningJobs, cancellationTokens, tokenCancelled, execs, cancels,
              persisted, toLoad, token>>

\* an API call on a manager whose `initialized` is false: ensureInitialized() calls
\* initialize(), which calls store.initialize() and awaits ensureStoreDir()
InitCall(l) ==
  /\ ~Initialized
  /\ loaders[l].pc = "idle"
  /\ loaders' = [loaders EXCEPT ![l].pc = "listing"]
  /\ UNCHANGED <<files, phase, jobs, keyOrder, heap, cancelTrue>>
  /\ LoaderFrame

\* loadPersistedJobs: fs.readdir has returned the .json files of the directory
LoaderListed(l) ==
  /\ loaders[l].pc = "listing"
  /\ loaders' = [loaders EXCEPT ![l].pc = "reading",
                                ![l].list = {id \in JobIds : DirFile(id).present}]
  /\ UNCHANGED <<files, phase, jobs, keyOrder, heap, cancelTrue>>
  /\ LoaderFrame

\* loadPersistedJobs: one pass of the loop over the files, as in LoadFile; a file
\* whose read throws is skipped by the catch block of the pass
LoaderRead(l, id) ==
  /\ loaders[l].pc = "reading"
  /\ id \in loaders[l].list
  /\ phase' = phase
  /\ LET job == deserializeJob(DirFile(id))
         kept == IF job.status \in TerminalStatuses THEN job ELSE RecoverJob(job, now)
         loaded == job.status \notin TerminalStatuses \/ WithinMaxAge(job, now)
     IN IF ReadThrows(DirFile(id))
          THEN /\ loaders' = [loaders EXCEPT ![l].list = @ \ {id}]
               /\ UNCHANGED <<files, jobs, keyOrder, heap, cancelTrue>>
          ELSE IF loaded
                 THEN /\ loaders' = [loaders EXCEPT ![l].list = @ \ {id},
                                                     ![l].replaced = @ \/ Has(job.id)]
                      /\ jobs' = MapSet(jobs, job.id, NextSlot)
                      /\ keyOrder' = KeySet(keyOrder, job.id)
                      /\ heap' = Collect([heap EXCEPT ![NextSlot] = kept], jobs', cancels, execs)
                      /\ cancelTrue' = CollectCounts(cancelTrue, jobs', cancels, execs)
                      /\ files' = files
                 ELSE /\ loaders' = [loaders EXCEPT ![l].list = @ \ {id}]
                      /\ files' = [files EXCEPT ![id] = NoFile]
                      /\ UNCHANGED <<jobs, keyOrder, heap, cancelTrue>>
  /\ LoaderFrame

\* store.initialize() has returned to initialize(): this.initialized = true
LoaderDone(l) ==
  /\ loaders[l].pc = "reading"
  /\ loaders[l].list = {}
  /\ loaders' = [loaders EXCEPT ![l].pc = "done"]
  /\ phase' = "ready"
  /\ UNCHANGED <<files, jobs, keyOrder, heap, cancelTrue>>
  /\ LoaderFrame

\* a start call back from ensureInitialized(): checkConcurrencyLimit() throws
InitRejected(l) ==
  /\ loaders[l].pc = "done"
  /\ checkConcurrencyLimit
  /\ loaders' = [loaders EXCEPT ![l].pc = "rejected"]
  /\ UNCHANGED <<files, phase, jobs, keyOrder, heap, cancelTrue>>
  /\ LoaderFrame

\* accepted start calls of the manager
MaxInitExecs == 1
InitSlotFree == Cardinality(FreeExecs) > MaxExecs - MaxInitExecs

NextInit ==
  \/ \E l \in Loaders : InitCall(l)
  \/ \E l \in Loaders : LoaderListed(l)
  \/ \E l \in Loaders, id \in JobIds : LoaderRead(l, id)
  \/ \E l \in Loaders : LoaderDone(l)
  \/ \E l \in Loaders : InitRejected(l)
  \/ \E id \in JobIds : Initialized /\ InitSlotFree /\ StartSingleShot(id)
  \/ \E e \in ExecIds : SSLaunch(e)
  \/ \E e \in ExecIds : SSRunProgress(e)
  \/ \E e \in ExecIds : SSCallStarted(e)
  \/ \E e \in ExecIds : SSExecute(e)
  \/ \E e \in ExecIds, success \in BOOLEAN : SSWorkerReturns(e, success)
  \/ \E e \in ExecIds : SSResProgress(e)
  \/ \E e \in ExecIds : SSResStatus(e)
  \/ \E e \in ExecIds : SSCallCompleted(e)
  \/ \E e \in ExecIds : SSReturn(e)

SpecInit == InitFresh /\ [][NextInit]_vars

(***************************************************************************)
(* initialize() on a store directory that earlier processes and others     *)
(* have left: job files of every status and age, and files that hold no    *)
(* job.                                                                    *)
(***************************************************************************)
\* a job as an earlier process saved it
SavedJob(id, status, t) ==
  IF status \in TerminalStatuses
    THEN SetStatus(NewJob(id, "single-shot", 0, 0), status, NoError, t)
    ELSE IF status = "running"
           THEN SetStatus(NewJob(id, "single-shot", 0, 0), status, NoError, 0)
           ELSE NewJob(id, "single-shot", 0, 0)

\* what <id>.json may hold
DirFiles(id) ==
  {NoFile, NotJSON, NullJSON, EmptyObject}
    \cup {serializeJob(SavedJob(id, status, t)) : status \in JobStatus, t \in Times}

InitLoad ==
  /\ now = MaxTime
  /\ jobs = << >>
  /\ heap = [e \in ExecIds |-> NoObject]
  /\ runningJobs = {}
  /\ cancellationTokens = << >>
  /\ tokenCancelled = [e \in ExecIds |-> FALSE]
  /\ execs = [e \in ExecIds |-> IdleExec]
  /\ cancels = [id \in JobIds |-> IdleCancel]
  /\ cancelTrue = [e \in ExecIds |-> 0]
  /\ files \in {f \in [JobIds -> UNION {DirFiles(id) : id \in JobIds}] :
                  \A id \in JobIds : f[id] \in DirFiles(id)}
  /\ persisted = [id \in JobIds |-> NoObject]
  /\ phase = "loading"
  /\ toLoad = {}
  /\ keyOrder = << >>
  /\ sweep = NoSweep
  /\ lastCall = NoCall
  /\ waiter = IdleWaiter
  /\ loaders = NoLoaders
  /\ token = NewCancellationToken

\* one initialize() call
NextLoad ==
  \/ InitCall(1)
  \/ LoaderListed(1)
  \/ \E id \in JobIds : LoaderRead(1, id)
  \/ LoaderDone(1)

SpecLoad == InitLoad /\ [][NextLoad]_vars

(***************************************************************************)
(* CancellationToken.                                                      *)
(***************************************************************************)
\* callbacks.forEach(cb => cb()): how often listener l is invoked
Occurrences(callbacks, l) == Cardinality({k \in DOMAIN callbacks : callbacks[k] = l})

CancellationTokenFrame ==
  UNCHANGED <<now, jobs, keyOrder, heap, runningJobs, cancellationTokens, tokenCancelled,
              execs, cancels, cancelTrue, callVars, files, persisted, phase, toLoad, loaders>>

\* CancellationToken.cancel()
CancellationTokenCancel ==
  /\ token.cancelCalls < MaxCancelCalls
  /\ token' = [token EXCEPT
                  !.cancelled = TRUE,
                  !.invoked = [l \in Listeners |-> @[l] + Occurrences(token.callbacks, l)],
                  !.cancelCalls = @ + 1]
  /\ CancellationTokenFrame

\* CancellationToken.onCancel(callback), with a callback not passed before
CancellationTokenOnCancel(l) ==
  /\ l \notin token.registered
  /\ token' = IF token.cancelled
                THEN [token EXCEPT !.registered = @ \cup {l}, !.invoked[l] = @ + 1]
                ELSE [token EXCEPT !.registered = @ \cup {l},
                                   !.callbacks = Append(@, l)]
  /\ CancellationTokenFrame

\* CancellationToken.isCancelled(), read by a caller
CancellationTokenIsCancelled ==
  /\ lastCall' = [op |-> "isCancelled", id |-> 0, threw |-> "none",
                  value |-> IF token.cancelled THEN 1 ELSE 0]
  /\ UNCHANGED <<now, jobs, keyOrder, heap, runningJobs, cancellationTokens, tokenCancelled,
                 execs, cancels, cancelTrue, sweep, waiter, diskVars>>

NextToken ==
  \/ CancellationTokenCancel
  \/ \E l \in Listeners : CancellationTokenOnCancel(l)
  \/ CancellationTokenIsCancelled

SpecToken == Init /\ [][NextToken]_vars

(***************************************************************************)
(* Properties.                                                             *)
(***************************************************************************)
\* the jobs of the store that are pending or running
NonTerminal == {id \in DOMAIN jobs : Job(id).status \in {"pending", "running"}}

AllowedEdges ==
  {<<"pending", "running">>, <<"running", "completed">>, <<"running", "failed">>,
   <<"running", "cancelled">>, <<"pending", "cancelled">>}

\* C1: the status of a job changes only along pending->running,
\* running->completed, running->failed, running->cancelled and
\* pending->cancelled; a terminal status never changes.
C1_StatusEdges ==
  [][\A o \in ExecIds :
       (heap[o].type # "none" /\ heap'[o].type # "none"
          /\ heap[o].status # heap'[o].status)
         => <<heap[o].status, heap'[o].status>> \in AllowedEdges]_vars

\* C2: the number of pending or running jobs never exceeds maxConcurrentJobs.
C2_NonTerminalBounded == Cardinality(NonTerminal) <= maxConcurrentJobs

\* C3: once fewer than maxConcurrentJobs jobs are pending or running (one of
\* them having become terminal), the next start call is accepted.
C3_AcceptedAfterTerminal ==
  Cardinality(NonTerminal) < maxConcurrentJobs => ~checkConcurrencyLimit

\* C4: repeated cancel calls on one job return true at most once.
C4_TrueAtMostOnce == \A o \in ExecIds : cancelTrue[o] <= 1

\* C5: an exception raised by an event hook does not keep the worker from
\* being invoked.
C5_WorkerInvokedDespiteHook ==
  \A e \in ExecIds : execs[e].hookThrew => execs[e].invoked

\* C7: when the worker of a single-shot job reports success = false, the job
\* ends with status failed and a non-empty string error.
C7_FailureCarriesError ==
  \A e \in ExecIds :
    (/\ execs[e].type = "single-shot"
     /\ execs[e].pc \in {"res_status", "hook_completed"}
     /\ ~execs[e].result.success
     /\ Has(execs[e].jobId)
     /\ jobs[execs[e].jobId] = e
     /\ Job(execs[e].jobId).status = "failed")
      => Truthy(Job(execs[e].jobId).error)

\* C8: a job record carries an error only when its status is failed, and so
\* does the snapshot poll returns for it.
C8_ErrorOnlyWhenFailed ==
  \A id \in DOMAIN jobs :
    /\ Job(id).error # NoError => Job(id).status = "failed"
    /\ poll(Job(id)).error # NoError => poll(Job(id)).status = "failed"

\* C9: for every job of the store, poll(id).finished is true if and only if
\* the job's status is completed, failed or cancelled.
C9_FinishedIffTerminal ==
  \A id \in DOMAIN jobs :
    poll(Job(id)).finished <=> Job(id).status \in TerminalStatuses

\* C9 witness: the store holds a cancelled job polled as finished and a job
\* polled as unfinished.
C9_Witness ==
  \E i \in DOMAIN jobs, j \in DOMAIN jobs :
    /\ Job(i).status = "cancelled" /\ poll(Job(i)).finished
    /\ Job(j).status \in {"pending", "running"} /\ ~poll(Job(j)).finished

\* C10: poll exposes a result only when finished is true, and a duration only
\* when finished is true and startedAt and completedAt are both set; the
\* duration is then completedAt - startedAt.
C10_PollWithholds ==
  \A id \in DOMAIN jobs :
    LET job == Job(id)
        p == poll(job)
    IN /\ p.result.defined => p.finished
       /\ ~p.finished => p.result = NoResult /\ ~p.duration.defined
       /\ p.finished => p.result = job.result
       /\ p.duration.defined =>
            /\ p.finished
            /\ job.startedAt # Undefined /\ job.completedAt # Undefined
            /\ p.duration.ms = job.completedAt - job.startedAt
       /\ (p.finished /\ job.startedAt # Undefined /\ job.completedAt # Undefined)
            => p.duration.defined

\* C10 witness: a running job whose stored result poll withholds, next to a
\* finished job polled with its result and a duration of one tick.
C10_Witness ==
  \E i \in DOMAIN jobs, j \in DOMAIN jobs :
    /\ Job(i).status = "running" /\ Job(i).result.defined
    /\ ~poll(Job(i)).result.defined
    /\ poll(Job(j)).finished /\ poll(Job(j)).result.defined
    /\ poll(Job(j)).duration = [defined |-> TRUE, ms |-> 1]

\* the fields of a job that restart recovery is to preserve
Preserved(job) ==
  <<job.status, job.createdAt, job.startedAt, job.completedAt, job.progress, job.result>>

\* C6: after initialize() every job persisted as running is present as failed
\* with the 'interrupted by restart' error, no job is running, and every job
\* persisted as completed within the max-age window is present with the same
\* status, timestamps, progress and result.
C6_RestartRecovery ==
  phase = "ready" =>
    /\ \A id \in DOMAIN jobs : Job(id).status # "running"
    /\ \A id \in JobIds :
         /\ persisted[id].status = "running" /\ persisted[id].type # "none"
              => /\ Has(id)
                 /\ Job(id).status = "failed"
                 /\ Job(id).error = InterruptedError
         /\ (/\ persisted[id].status = "completed" /\ persisted[id].type # "none"
             /\ WithinMaxAge(persisted[id], now))
              => /\ Has(id)
                 /\ Preserved(Job(id)) = Preserved(persisted[id])

\* C6 witness: initialize() has returned on a directory that held a running job
\* and a completed job within the max-age window.
C6_Witness ==
  /\ phase = "ready"
  /\ \E i \in JobIds, j \in JobIds :
       /\ persisted[i].status = "running" /\ Has(i) /\ Job(i).status = "failed"
       /\ persisted[j].status = "completed" /\ WithinMaxAge(persisted[j], now)
       /\ Has(j) /\ Job(j).status = "completed" /\ Job(j).result.defined

\* C11: a job of the store is never removed while its status is pending or
\* running, neither by deleteJob nor by the cleanup sweep.
C11_NeverRemovedWhileActive ==
  [][\A id \in DOMAIN jobs :
       Job(id).status \in {"pending", "running"} => id \in DOMAIN jobs']_vars

\* C12: every job a step of cleanup() removes is terminal and older than
\* maxJobAge; jobs that are not terminal and terminal jobs that are younger
\* are retained.
C12_RemovesOnlyExpired ==
  [][sweep' # sweep =>
       \A id \in (DOMAIN jobs) \ (DOMAIN jobs') : Expired(Job(id), now)]_vars

\* the job records of the store, by id
Records == [id \in DOMAIN jobs |-> Job(id)]

C14_TimestampsPresent ==
  \A id \in DOMAIN jobs :
    /\ Job(id).status \in TerminalStatuses => Job(id).completedAt # Undefined
    /\ Job(id).status = "completed" => Job(id).startedAt # Undefined

\* C15: a failed write of the persisted file does not make the store update
\* fail: no execution is aborted by the write error and no job is marked
\* failed with it.
C15_WriteErrorNotFatal ==
  \A id \in DOMAIN jobs :
    ~(Job(id).status = "failed" /\ Job(id).error = WriteError)

\* C16: every job of the store whose progress has a known tasksTotal (set from
\* the backlog, not the 0 a loop job is created with) has
\* tasksCompleted <= tasksTotal.
C16_CompletedWithinTotal ==
  \A id \in DOMAIN jobs :
    (Job(id).progress.defined /\ Job(id).progress.tasksTotal > 0)
      => Job(id).progress.tasksCompleted <= Job(id).progress.tasksTotal

\* the five fields of a progress record that updateProgress merges
Merged(progress) ==
  <<progress.currentIteration, progress.currentTaskId, progress.tasksCompleted,
    progress.tasksTotal, progress.message>>

InEngine == {"load", "worker", "prd_save"}

\* C18: when cancel() is called on a loop job whose engine is running, the
\* engine dispatches the worker at most once more, and not at all after an
\* end-of-iteration check has seen the request, and the run it returns has
\* completed = false.
C18_CancelStopsLoop ==
  [][\A e \in ExecIds :
       (execs[e].type = "loop" /\ execs[e].cancelPc \in InEngine)
       => /\ (execs'[e].pc = "worker" /\ execs[e].pc # "worker") => execs[e].pc = "load"
          /\ (execs'[e].pc = "returned" /\ execs[e].pc # "returned")
               => ~execs'[e].result.completed]_vars

\* the failed iterations of an engine's history
FailedAt(x) == {i \in DOMAIN x.iterations : ~x.iterations[i].success}

\* C19: with fail-fast, once an iteration has failed the engine has returned
\* (no worker is dispatched, nothing is being saved), that iteration is the last
\* of the history, the history numbers its iterations 1, 2, ... and the result
\* is neither successful nor completed.
C19_FailFastEndsRun ==
  \A e \in ExecIds :
    (execs[e].type = "loop" /\ execs[e].failFast /\ FailedAt(execs[e]) # {})
    => /\ execs[e].pc \notin InEngine
       /\ FailedAt(execs[e]) = {Len(execs[e].iterations)}
       /\ \A i \in DOMAIN execs[e].iterations : execs[e].iterations[i].iteration = i
       /\ execs[e].result.defined
       /\ ~execs[e].result.success
       /\ ~execs[e].result.completed

\* a fail-fast run ended by the failure of its second iteration, after the first
\* one marked a story complete
C19_Witness ==
  \E e \in ExecIds :
    /\ execs[e].type = "loop"
    /\ execs[e].failFast
    /\ execs[e].pc = "returned"
    /\ Len(execs[e].iterations) = 2
    /\ FailedAt(execs[e]) = {2}
    /\ PassCount(execs[e].prd) = 1

\* C20: the result of a fail-fast run that a failed iteration ended carries
\* tasksCompleted = the number of stories marked complete and tasksTotal = the
\* size of the backlog.
C20_FailureCarriesCounts ==
  \A e \in ExecIds :
    (/\ execs[e].type = "loop"
     /\ execs[e].failFast
     /\ FailedAt(execs[e]) # {}
     /\ execs[e].result.defined)
    => /\ execs[e].result.tasksCompleted = PassCount(execs[e].prd)
       /\ execs[e].result.tasksTotal = Len(execs[e].prd)

\* the backlog file a run was started on (story ids tell the files apart)
FileOf(stories) ==
  CHOOSE file \in Backlogs \cup TaskFiles :
    /\ Len(file) = Len(stories)
    /\ \A i \in DOMAIN file : file[i].id = stories[i].id

\* the place of the story with that id in the backlog
IndexOf(stories, id) == CHOOSE i \in DOMAIN stories : stories[i].id = id

\* an engine run that has returned after entering its loop
Returned(x) == x.type = "loop" /\ x.pc \in {"returned", "done"} /\ x.iteration >= 1

\* every worker invocation of the run returned success with passes = true
AlwaysPassed(x) ==
  /\ \A i \in DOMAIN x.iterations : x.iterations[i].success
  /\ Len(x.iterations) = PassCount(x.prd) - PassCount(FileOf(x.prd))

\* i comes before j in the order (priority ascending, original index ascending)
Before(stories, i, j) ==
  \/ stories[i].priority < stories[j].priority
  \/ stories[i].priority = stories[j].priority /\ i < j

\* C21: a run on a backlog of n incomplete stories whose worker always returned
\* success with passes = true, with maxIterations > n and no cancellation,
\* returns success = true, completed = true, tasksCompleted = tasksTotal = n and
\* a history of n entries whose task ids are in (priority, index) order.
C21_AllPassCompletes ==
  \A e \in ExecIds :
    LET x == execs[e]
        n == Len(x.prd)
    IN (/\ Returned(x)
        /\ ~tokenCancelled[e]
        /\ PassCount(FileOf(x.prd)) = 0
        /\ x.maxIterations > n
        /\ AlwaysPassed(x))
       => /\ x.result.success
          /\ x.result.completed
          /\ x.result.tasksCompleted = n
          /\ x.result.tasksTotal = n
          /\ Len(x.iterations) = n
          /\ \A i, j \in DOMAIN x.iterations :
               i < j => Before(x.prd, IndexOf(x.prd, x.iterations[i].taskId),
                                      IndexOf(x.prd, x.iterations[j].taskId))

\* the run on the three-story backlog with maxIterations 4 has returned after
\* three passing iterations: B, then C (same priority, later index), then A
C21_Witness ==
  \E e \in ExecIds :
    /\ Returned(execs[e])
    /\ ~tokenCancelled[e]
    /\ execs[e].maxIterations = 4
    /\ Len(execs[e].prd) = 3
    /\ AlwaysPassed(execs[e])
    /\ [i \in 1..3 |-> execs[e].iterations[i].taskId] = <<"B", "C", "A">>

\* the worker invocations a run has made so far
Dispatched(x) == Len(x.iterations) + IF x.pc = "worker" THEN 1 ELSE 0

C23_SelectsLeast ==
  [][\A e \in ExecIds :
       LET x == execs[e]
           y == execs'[e]
       IN (x.type = "loop" /\ y.type = "loop")
          => /\ (y.pc = "worker" /\ x.pc # "worker")
                  => /\ ~y.prd[y.story].passes
                     /\ \A j \in DOMAIN y.prd :
                          (j # y.story /\ ~y.prd[j].passes) => Before(y.prd, y.story, j)
                     /\ (x.story # 0 /\ ~y.prd[x.story].passes) => y.story = x.story
             /\ (y.pc = "returned" /\ x.pc # "returned" /\ y.result.completed)
                  => \A j \in DOMAIN y.prd : y.prd[j].passes
             /\ x.pc # "worker" => y.prd = x.prd]_vars

\* on the three-story backlog B was completed, C was dispatched and left
\* incomplete, and C (not A, listed first) is dispatched again
C23_Witness ==
  \E e \in ExecIds :
    /\ execs[e].type = "loop"
    /\ execs[e].pc = "worker"
    /\ Len(execs[e].prd) = 3
    /\ execs[e].prd[2].passes
    /\ Len(execs[e].iterations) = 2
    /\ execs[e].iterations[2].taskId = "C"
    /\ execs[e].story = 3

\* C24: within a run a completion flag never goes from true to false; a flag
\* changes only in the step in which the worker returns success with
\* passes = true, and then it is the flag of the story that was dispatched in
\* that iteration (the one the iteration's history entry names) and no other
\* flag changes; and a story whose flag is true is never dispatched.
C24_FlagSetOnceByPass ==
  [][\A e \in ExecIds :
       LET x == execs[e]
           y == execs'[e]
           changed == {i \in DOMAIN x.prd : y.prd[i] # x.prd[i]}
       IN (x.type = "loop" /\ y.type = "loop")
          => /\ DOMAIN y.prd = DOMAIN x.prd
             /\ \A i \in DOMAIN x.prd : x.prd[i].passes => y.prd[i].passes
             /\ changed # {}
                  => /\ x.pc = "worker"
                     /\ y.worker = "pass"
                     /\ changed = {x.story}
                     /\ ~x.prd[x.story].passes
                     /\ y.prd[x.story] = [x.prd[x.story] EXCEPT !.passes = TRUE]
                     /\ y.iterations[Len(y.iterations)] =
                          [iteration |-> x.iteration, taskId |-> x.prd[x.story].id,
                           success |-> TRUE]
             /\ y.pc = "worker" => ~y.prd[y.story].passes]_vars

\* a run has completed one story and a passing result has just set the flag of a
\* second one, the others staying as they were
C24_Witness ==
  \E e \in ExecIds :
    /\ execs[e].type = "loop"
    /\ execs[e].pc \in {"log_append", "prd_save"}
    /\ execs[e].worker = "pass"
    /\ Len(execs[e].prd) = 3
    /\ PassCount(execs[e].prd) = 2
    /\ execs[e].prd[execs[e].story].passes
    /\ Len(execs[e].iterations) = 3

IsPrefix(s, t) == Len(s) <= Len(t) /\ s = SubSeq(t, 1, Len(s))

\* C25: the iterations of a loop job in the store are numbered 1, 2, ..., k in
\* the order they are held, and they are a prefix of the iterations executed by
\* the engine that runs that job.
C25_IterationsInOrder ==
  \A id \in JobIds :
    (Has(id) /\ Job(id).type = "loop")
    => /\ \A i \in DOMAIN Job(id).iterations : Job(id).iterations[i].iteration = i
       /\ (execs[jobs[id]].type = "loop" /\ execs[jobs[id]].jobId = id)
            => IsPrefix(Job(id).iterations, execs[jobs[id]].iterations)

\* C26: when waitForCompletion returns, the job is in the store with a terminal
\* status, and the result returned has finished = true and is what poll(id)
\* returns in that state; and when the job is not in the store at a poll,
\* waitForCompletion raises instead of returning.
C26_ReturnsFinishedSnapshot ==
  [][/\ (waiter.pc # "returned" /\ waiter'.pc = "returned")
        => /\ waiter'.result.finished
           /\ Has(waiter.id)
           /\ Job(waiter.id).status \in {"completed", "failed", "cancelled"}
           /\ waiter'.result = poll(Job(waiter.id))
     /\ (waiter.pc = "poll" /\ ~Has(waiter.id)) => waiter'.pc \in {"poll", "threw"}]_vars

\* C27: a loop job on which cancel() returned true has the status cancelled
\* once its background execution has ended.
C27_LoopKeepsCancelled ==
  \A e \in ExecIds :
    (heap[e].type = "loop" /\ cancelTrue[e] > 0 /\ execs[e].pc = "done")
    => heap[e].status = "cancelled"

\* C28: a run that returned from its loop without a cancellation and without a
\* failed iteration has completed = true and success = true exactly when no
\* story is incomplete at the return, and it has completed = false only when
\* maxIterations iterations were made and a story is still incomplete.
C28_CompletedIffExhausted ==
  \A e \in ExecIds :
    LET x == execs[e]
    IN (Returned(x) /\ ~tokenCancelled[e] /\ FailedAt(x) = {})
       => /\ (x.result.completed /\ x.result.success) <=> PassCount(x.prd) = Len(x.prd)
          /\ ~x.result.completed
               => (x.iteration = x.maxIterations /\ PassCount(x.prd) < Len(x.prd))

\* C29: an entry is appended to the progress log only in an iteration whose
\* worker returned success with passes = true, for the story that iteration
\* marked complete and that has no entry yet; and between iterations the log
\* holds as many entries as stories were completed by the run.
C29_LogOnlyOnPass ==
  [][\A e \in ExecIds :
       LET x == execs[e]
           y == execs'[e]
       IN (x.type = "loop" /\ y.type = "loop")
          => /\ (y.log # x.log /\ x.pc # "log_init")
                  => /\ x.worker = "pass"
                     /\ x.prd[x.story].passes
                     /\ \A i \in DOMAIN x.log : x.log[i] # x.prd[x.story].id
                     /\ y.log = Append(x.log, x.prd[x.story].id)
             /\ (y.progressFile /\ y.pc \in {"prd_save", "worker", "returned"})
                  => Len(y.log) = PassCount(y.prd) - PassCount(FileOf(y.prd))]_vars

\* what a poll result shows of the progress counters
Counters(p) == <<p.progress.currentIteration, p.progress.tasksCompleted, p.progress.tasksTotal>>

\* C30: while a job whose poll result has finished = true stays in the store, no
\* step changes the status, result, error or progress counters that poll
\* returns for it.
C30_FinishedPollStable ==
  [][\A id \in JobIds :
       (/\ Has(id)
        /\ poll(Job(id)).finished
        /\ id \in DOMAIN jobs'
        /\ jobs'[id] = jobs[id])
       => LET before == poll(Job(id))
              after == poll(heap'[jobs'[id]])
          IN /\ after.status = before.status
             /\ after.result = before.result
             /\ after.error = before.error
             /\ Counters(after) = Counters(before)]_vars

\* C31: onJobCompleted is called only with a job whose status is completed and
\* onJobFailed only with a job whose status is failed, in both cases after
\* onJobStarted was called and on a job for which onJobCancelled has not fired;
\* onJobCancelled is called with a job whose status is cancelled.
C31_EventMatchesStatus ==
  [][/\ \A e \in ExecIds :
          LET x == execs[e]
              y == execs'[e]
          IN /\ (y.pc = "hook_completed" /\ x.pc # "hook_completed")
                  => /\ Has(x.jobId)
                     /\ Job(x.jobId).status = "completed"
                     /\ cancelTrue[jobs[x.jobId]] = 0
                     /\ x.invoked
             /\ (y.pc = "hook_failed" /\ x.pc # "hook_failed")
                  => /\ Has(x.jobId)
                     /\ Job(x.jobId).status = "failed"
                     /\ cancelTrue[jobs[x.jobId]] = 0
                     /\ (x.invoked \/ x.hookThrew)
     /\ \A id \in JobIds :
          (cancels[id].pc = "save" /\ cancels'[id].pc = "idle")
          => heap[cancels[id].job].status = "cancelled"]_vars

\* C32: under fair scheduling a job that is in the store with a status that is
\* not terminal eventually has a terminal status (or is no longer in the store).
C32_EventuallyTerminal ==
  \A id \in JobIds :
    (Has(id) /\ Job(id).status \notin TerminalStatuses)
      ~> (~Has(id) \/ Job(id).status \in TerminalStatuses)

\* C33: an accepted start call leaves every job that is in the store in the
\* store, under its id, as the same record with the same content.
C33_StartKeepsRecords ==
  [][\A e \in ExecIds :
       (execs[e].pc = "idle" /\ execs'[e].pc = "start_save")
       => \A id \in JobIds :
            Has(id) => /\ id \in DOMAIN jobs'
                       /\ jobs'[id] = jobs[id]
                       /\ heap'[jobs[id]] = heap[jobs[id]]]_vars

\* the execution of job id is in flight
InFlight(id) == \E e \in ExecIds : execs[e].jobId = id /\ execs[e].pc \notin {"idle", "done"}

\* C34: loadPersistedJobs is entered by at most one initialize() call of a
\* manager; the record of a job whose execution is in flight is not replaced in
\* the store; and such a job does not carry the 'interrupted by restart' error.
C34_LoadsOnce ==
  [][/\ Cardinality({l \in Loaders : loaders'[l].pc \in {"reading", "done", "rejected"}}) <= 1
     /\ \A id \in JobIds :
          (InFlight(id) /\ Has(id))
          => /\ id \in DOMAIN jobs'
             /\ jobs'[id] = jobs[id]
             /\ heap'[jobs'[id]].error # InterruptedError]_vars

\* C35: over the lifetime of a loop job, no step lowers progress.currentIteration
\* or progress.tasksCompleted of its record (steps of a start call, which store
\* a new job, aside).
C35_ProgressMonotone ==
  [][\A id \in JobIds :
       (/\ Has(id)
        /\ id \in DOMAIN jobs'
        /\ jobs'[id] = jobs[id]
        /\ Job(id).type = "loop"
        /\ \A e \in ExecIds : ~(execs[e].pc = "idle" /\ execs'[e].pc = "start_save"))
       => /\ heap'[jobs[id]].progress.currentIteration >= Job(id).progress.currentIteration
          /\ heap'[jobs[id]].progress.tasksCompleted >= Job(id).progress.tasksCompleted]_vars

\* C36: a start call that checkConcurrencyLimit() rejects has had no effect: the
\* rejecting step changes no record, no cancellation handle, no execution and no
\* file, and the call has replaced no record of the store on its way there.
C36_RejectedStartNoEffect ==
  [][\A l \in Loaders :
       (loaders[l].pc = "done" /\ loaders'[l].pc = "rejected")
       => /\ UNCHANGED <<jobs, heap, cancellationTokens, runningJobs, execs, files>>
          /\ ~loaders[l].replaced]_vars

\* the stories complete in the backlog of run x whose bookkeeping (mark, log
\* entry, save) had finished when the run ended
DurableMarks(x) ==
  {i \in DOMAIN x.prd :
     x.prd[i].passes /\ ~(x.pc = "stopped_in_bookkeeping" /\ i = x.story)}

\* C37: when a run has ended (returned on exhaustion, cap, cancellation or
\* fail-fast, or cut off by a process stop), a later run on the same backlog
\* file dispatches no story whose completion the earlier run had recorded, and
\* the story it dispatches is the least in (priority, index) order of the stories
\* still incomplete.
C37_CompletionDurable ==
  \A e1, e2 \in ExecIds :
    LET x1 == execs[e1]
        x2 == execs[e2]
    IN (/\ x2.earlier = e1
        /\ x1.type = "loop" /\ x1.pc \in Ended
        /\ x2.type = "loop" /\ x2.pc = "worker")
       => /\ DOMAIN x2.prd = DOMAIN x1.prd
          /\ x2.story \notin DurableMarks(x1)
          /\ \A j \in DOMAIN x2.prd :
               (j # x2.story /\ j \notin DurableMarks(x1) /\ ~x2.prd[j].passes)
               => Before(x2.prd, x2.story, j)

\* the first run completed B and was cut off by a process stop while its worker
\* ran on A; the later run has dispatched A
C37_Witness ==
  /\ execs[1].type = "loop" /\ execs[1].pc = "stopped"
  /\ Len(execs[1].prd) = 2
  /\ Len(execs[1].iterations) = 1
  /\ execs[1].prd[2].passes /\ ~execs[1].prd[1].passes
  /\ execs[2].type = "loop" /\ execs[2].pc = "worker"
  /\ execs[2].earlier = 1
  /\ execs[2].story = 1
  /\ execs[2].iteration = 1

\* C38: in one initialize() call, the pass over a file that holds no job leaves
\* the store and the directory as they are; the pass over the file of a job that
\* is not terminal, or is terminal and younger than maxJobAge, puts that job in
\* the store under its id; the pass over the file of a terminal job of age
\* maxJobAge or more removes the file and stores nothing.
C38_MalformedSkipped ==
  [][\A id \in JobIds :
       (id \in loaders[1].list /\ id \notin loaders'[1].list)
       => LET file == files[id]
              job == deserializeJob(file)
          IN IF file.content # "job"
               THEN jobs' = jobs /\ heap' = heap /\ files' = files
               ELSE IF job.status \notin TerminalStatuses \/ WithinMaxAge(job, now)
                      THEN /\ id \in DOMAIN jobs'
                           /\ heap'[jobs'[id]].id = id
                           /\ files' = files
                      ELSE /\ id \notin DOMAIN jobs'
                           /\ ~files'[id].present]_vars

\* C39: a listener passed to onCancel has been invoked exactly once when the
\* token is cancelled and never when it is not, however often cancel() was
\* called; a callback never passed to onCancel has not been invoked.
C39_ListenerInvokedOnce ==
  \A l \in Listeners :
    token.invoked[l] = IF l \in token.registered /\ token.cancelled THEN 1 ELSE 0

====
